---------------------------- MODULE Spec2Model ----------------------------
(***************************************************************************)
(* Edu-Sphere backend: the soft-delete / restore lifecycle of categories,  *)
(* courses, lessons and enrollments, the enrollment progress rule and the  *)
(* denormalised statistics of courses and instructors.                     *)
(*                                                                         *)
(* The document store is modelled as one sequence per collection; the id   *)
(* of a document is its index.  ObjectIds of different collections never   *)
(* compare equal, so an id is compared across collections through          *)
(* ObjectId(collection, index).  Mongoose query middleware registered with *)
(* pre(/^find/) runs for find, findOne, findById and findOneAnd..., and     *)
(* not for countDocuments, distinct, updateOne, aggregate or the raw        *)
(* collection driver.                                                      *)
(***************************************************************************)
EXTENDS Integers, Sequences, FiniteSets, TLC

\* ---- bounds of the model ------------------------------------------------
MaxCategories == 1
MaxCourses == 2
MaxPublishing == 1
MaxLessons == 2
MaxStudents == 2
MaxInstructors == 1
MaxProcs == 2
MaxWriters == 2
MaxPrice == 2
MaxConns == 1

VARIABLES
  categories,   \* Category collection: Seq of [isActive]
  courses,      \* Course collection: Seq of [category, instructor, status, isActive, lessonsCount, enrolledStudents]
  lessons,      \* Lesson collection: Seq of [course, order, isActive]
  enrollments,  \* Enrollment collection: Seq of [user, course, status, progress, completedLessons, completedAt, isActive]
  instructors,  \* Instructor collection: Seq of [user, totalCourses, totalStudents]
  procs,        \* enrollInCourse requests in flight, one per handler task
  clock,        \* source of Date stamps
  resp,         \* the request answered last: what it was, on what, and the answer
  life,         \* history: the last lifecycle transition each category / course went through
  users,        \* User collection: [active, role] per user
  inflight,     \* createLesson requests in flight, one per handler task
  pricing,      \* price and discountPrice of the courses created with prices
  server        \* the server process: listener, connections, signal listeners, database connection, exit

\* the state that the category, course, lesson and enrollment handlers leave alone
rest == <<inflight, pricing, server>>

vars == <<categories, courses, lessons, enrollments, instructors, procs, clock, resp, life,
          users, inflight, pricing, server>>

\* ---- identities -----------------------------------------------------------
StudentIds == 1..MaxStudents
InstructorIds == 1..MaxInstructors
InstructorUser(i) == MaxStudents + i
AdminUser == MaxStudents + MaxInstructors + 1
UserIds == 1..AdminUser
Procs == 1..MaxProcs
Writers == 1..MaxWriters

\* the role a user registered with
RegisteredRole(u) ==
  IF u \in StudentIds THEN "student"
  ELSE IF u = AdminUser THEN "admin" ELSE "instructor"

UserRole(u) == users[u].role

ObjectId(coll, n) == <<coll, n>>

CategoryIds == DOMAIN categories
CourseIds == DOMAIN courses
LessonIds == DOMAIN lessons
EnrollmentIds == DOMAIN enrollments

\* ---- query middleware: the soft-delete filters --------------------------
CategoryPreFind(k) == categories[k].isActive # FALSE

CoursePreFindAll(c) == TRUE
CoursePreFind(c) == courses[c].isActive # FALSE

LessonPreFind(l) == lessons[l].isActive # FALSE

EnrollmentPreFind(e) == enrollments[e].isActive # FALSE

\* Model.find(): the ids the query returns once the middleware has run
CategoryFind == {k \in CategoryIds : CategoryPreFind(k)}
CourseFind == {c \in CourseIds : CoursePreFind(c)}
LessonFind == {l \in LessonIds : LessonPreFind(l)}
EnrollmentFind == {e \in EnrollmentIds : EnrollmentPreFind(e)}

\* InstructorModel.findOne({ user }): the instructor schema has no filter
InstructorOfUser(u) == {i \in DOMAIN instructors : instructors[i].user = u}

\* ---- responses ------------------------------------------------------------
NoDoc == [none |-> TRUE]

Answer(op, id, arg, code, pre) ==
  [op |-> op, id |-> id, arg |-> arg, code |-> code, pre |-> pre]


\* ---- Course.updateStats / Instructor.updateStats -------------------------
\* Lesson.countDocuments({ course }): countDocuments runs no find middleware
LessonCountDocuments(ls, c) == Cardinality({l \in DOMAIN ls : ls[l].course = c})

\* Enrollment.distinct('user', { course }): distinct runs no find middleware
EnrollmentDistinctUsers(es, c) == {es[e].user : e \in {x \in DOMAIN es : es[x].course = c}}

\* course.updateStats(): the course document with its two counters recomputed and saved
CourseUpdateStats(cs, ls, es, c) ==
  [cs EXCEPT ![c].lessonsCount = LessonCountDocuments(ls, c),
             ![c].enrolledStudents = EnrollmentDistinctUsers(es, c)]

\* the methods the instructor schema defines
InstructorMethods == {"updateStats"}

RECURSIVE SumOver(_, _)
SumOver(f, S) ==
  IF S = {} THEN 0
  ELSE LET x == CHOOSE y \in S : TRUE IN f[x] + SumOver(f, S \ {x})

\* instructor.updateStats(): Course.aggregate $match / $lookup / $group
InstructorStats(cs, es, i) ==
  LET mine == {c \in DOMAIN cs : cs[c].instructor = i}
      size == [c \in mine |-> Cardinality({e \in DOMAIN es : es[e].course = c})]
  IN [totalCourses |-> Cardinality(mine), totalStudents |-> SumOver(size, mine)]

InstructorUpdateStats(ins, cs, es, i) ==
  [ins EXCEPT ![i].totalCourses = InstructorStats(cs, es, i).totalCourses,
              ![i].totalStudents = InstructorStats(cs, es, i).totalStudents]

\* updateCourseStats (lesson hooks): Course.findById, then updateStats if found
LessonUpdateCourseStats(cs, ls, es, c) ==
  IF c \in DOMAIN cs /\ cs[c].isActive # FALSE
  THEN CourseUpdateStats(cs, ls, es, c) ELSE cs

\* updateRelatedStats (enrollment hooks), the course half
RelatedCourseStats(cs, ls, es, c) ==
  IF c \in DOMAIN cs /\ cs[c].isActive # FALSE
  THEN CourseUpdateStats(cs, ls, es, c) ELSE cs

\* updateRelatedStats, the instructor half: InstructorModel.findOne({ _id:
\* course?.instructor }) and the typeof guard on instructor.updateTotalStudents
RelatedInstructorStats(ins, cs, es, c) ==
  IF c \in DOMAIN cs /\ cs[c].isActive # FALSE
     /\ cs[c].instructor \in DOMAIN ins
     /\ "updateTotalStudents" \in InstructorMethods
  THEN InstructorUpdateStats(ins, cs, es, cs[c].instructor) ELSE ins

\* ---- categories -----------------------------------------------------------
\* createCategory
CreateCategory ==
  /\ Len(categories) < MaxCategories
  /\ categories' = Append(categories, [isActive |-> TRUE])
  /\ life' = [life EXCEPT !.category = Append(@, "created")]
  /\ resp' = Answer("createCategory", Len(categories) + 1, 0, "Created", NoDoc)
  /\ UNCHANGED <<courses, lessons, enrollments, instructors, procs, clock>>
  /\ UNCHANGED <<users, rest>>

\* category.softDelete(): Course.countDocuments({ category }) guards the flag flip
CategoryCourseCount(k) ==
  Cardinality({c \in CourseIds : courses[c].category = k})

CategorySoftDeleteUnguarded(k) == FALSE
CategorySoftDeleteThrows(k) == CategoryCourseCount(k) > 0

\* the class deleteCategory gives to an error thrown by softDelete
DeleteCategoryGuardClass == "BadRequest"

\* the stored category as a request finds it (raw read, for the record of the request)
CategoryDoc(k) == IF k \in CategoryIds THEN categories[k] ELSE NoDoc

\* deleteCategory
DeleteCategory(k) ==
  /\ k \in 1..MaxCategories
  /\ IF ~(k \in CategoryIds /\ CategoryPreFind(k))
     THEN /\ resp' = Answer("deleteCategory", k, 0, "NotFound", CategoryDoc(k))
          /\ UNCHANGED <<categories, life>>
     ELSE IF ~categories[k].isActive
     THEN /\ resp' = Answer("deleteCategory", k, 0, "BadRequest", CategoryDoc(k))
          /\ UNCHANGED <<categories, life>>
     ELSE IF CategorySoftDeleteThrows(k)
     THEN /\ resp' = Answer("deleteCategory", k, 0, DeleteCategoryGuardClass, CategoryDoc(k))
          /\ UNCHANGED <<categories, life>>
     ELSE /\ categories' = [categories EXCEPT ![k].isActive = FALSE]
          /\ life' = [life EXCEPT !.category[k] = "deleted"]
          /\ resp' = Answer("deleteCategory", k, 0, "NoContent", CategoryDoc(k))
  /\ UNCHANGED <<courses, lessons, enrollments, instructors, procs, clock>>
  /\ UNCHANGED <<users, rest>>

\* restoreCategory and restoreCategoryService: the raw collection read sees
\* inactive documents; updateOne sets the flag, category.restore() sets it again
RestoreCategory(k) ==
  /\ k \in 1..MaxCategories
  /\ IF k \notin CategoryIds
     THEN /\ resp' = Answer("restoreCategory", k, 0, "NotFound", NoDoc)
          /\ UNCHANGED <<categories, life>>
     ELSE IF categories[k].isActive
     THEN /\ resp' = Answer("restoreCategory", k, 0, "BadRequest", NoDoc)
          /\ UNCHANGED <<categories, life>>
     ELSE /\ categories' = [categories EXCEPT ![k].isActive = TRUE]
          /\ life' = [life EXCEPT !.category[k] = "restored"]
          /\ resp' = Answer("restoreCategory", k, 0, "OK", NoDoc)
  /\ UNCHANGED <<courses, lessons, enrollments, instructors, procs, clock>>
  /\ UNCHANGED <<users, rest>>

\* getCategory: Category.findById
GetCategory(k) ==
  /\ k \in 1..MaxCategories
  /\ resp' = Answer("getCategory", k, 0,
                    IF k \in CategoryFind THEN "OK" ELSE "NotFound", NoDoc)
  /\ UNCHANGED <<categories, courses, lessons, enrollments, instructors, procs, clock, life>>
  /\ UNCHANGED <<users, rest>>


\* ---- courses --------------------------------------------------------------
NewCourse(k, i) ==
  [category |-> k, instructor |-> i, status |-> "draft", isActive |-> TRUE,
   lessonsCount |-> 0, enrolledStudents |-> {}]

\* createCourse (route: restrictTo('instructor'))
CreateCourse(u, k) ==
  /\ u \in UserIds /\ UserRole(u) = "instructor"
  /\ k \in 1..MaxCategories
  /\ Len(courses) < MaxCourses
  /\ IF InstructorOfUser(u) = {}
     THEN /\ resp' = Answer("createCourse", 0, k, "Forbidden", NoDoc)
          /\ UNCHANGED <<courses, life>>
     ELSE IF k \notin CategoryFind
     THEN /\ resp' = Answer("createCourse", 0, k, "BadRequest", NoDoc)
          /\ UNCHANGED <<courses, life>>
     ELSE LET i == CHOOSE x \in InstructorOfUser(u) : TRUE IN
          /\ courses' = Append(courses, NewCourse(k, i))
          /\ life' = [life EXCEPT !.course = Append(@, "created")]
          /\ resp' = Answer("createCourse", Len(courses) + 1, k, "Created", NoDoc)
  /\ UNCHANGED <<categories, lessons, enrollments, instructors, procs, clock>>
  /\ UNCHANGED <<users, rest>>

\* the ownership test shared by updateCourseStatus, deleteCourse, createLesson:
\* "NotFound" when the caller has no instructor profile, else owner or admin
CourseAuth(u, c) ==
  IF InstructorOfUser(u) = {} THEN "NotFound"
  ELSE IF UserRole(u) # "admin"
          /\ ObjectId("Instructor", CHOOSE x \in InstructorOfUser(u) : TRUE)
               # ObjectId("Instructor", courses[c].instructor)
  THEN "Forbidden" ELSE "pass"

PublishRefusedNever(cs, c, status) == FALSE
\* updateCourseStatus: status === 'published' && course.lessonsCount === 0
PublishRefused(cs, c, status) == status = "published" /\ cs[c].lessonsCount = 0

\* updateCourseStatus (route: restrictTo('instructor', 'admin'))
UpdateCourseStatus(u, c, status) ==
  /\ u \in UserIds /\ UserRole(u) \in {"instructor", "admin"}
  /\ c \in 1..MaxCourses
  /\ status \in {"draft", "published", "archived"}
  /\ IF c \notin CourseFind
     THEN /\ resp' = Answer("updateCourseStatus", c, 0, "NotFound", [caller |-> u, status |-> status])
          /\ UNCHANGED courses
     ELSE IF CourseAuth(u, c) # "pass"
     THEN /\ resp' = Answer("updateCourseStatus", c, 0, CourseAuth(u, c), [caller |-> u, status |-> status])
          /\ UNCHANGED courses
     ELSE IF PublishRefused(courses, c, status)
     THEN /\ resp' = Answer("updateCourseStatus", c, 0, "BadRequest", [caller |-> u, status |-> status])
          /\ UNCHANGED courses
     ELSE /\ courses' = [courses EXCEPT ![c].status = status]
          /\ resp' = Answer("updateCourseStatus", c, 0, "OK", [caller |-> u, status |-> status])
  /\ UNCHANGED <<categories, lessons, enrollments, instructors, procs, clock, life>>
  /\ UNCHANGED <<users, rest>>

\* course.softDelete()
CourseSoftDelete(cs, c) == [cs EXCEPT ![c].isActive = FALSE]

\* deleteCourse (route: restrictTo('instructor', 'admin'))
DeleteCourse(u, c) ==
  /\ u \in UserIds /\ UserRole(u) \in {"instructor", "admin"}
  /\ c \in 1..MaxCourses
  /\ IF c \notin CourseFind
     THEN /\ resp' = Answer("deleteCourse", c, 0, "NotFound", [caller |-> u])
          /\ UNCHANGED <<courses, life>>
     ELSE IF ~courses[c].isActive
     THEN /\ resp' = Answer("deleteCourse", c, 0, "BadRequest", [caller |-> u])
          /\ UNCHANGED <<courses, life>>
     ELSE IF CourseAuth(u, c) # "pass"
     THEN /\ resp' = Answer("deleteCourse", c, 0, CourseAuth(u, c), [caller |-> u])
          /\ UNCHANGED <<courses, life>>
     ELSE /\ courses' = CourseSoftDelete(courses, c)
          /\ life' = [life EXCEPT !.course[c] = "deleted"]
          /\ resp' = Answer("deleteCourse", c, 0, "NoContent", [caller |-> u])
  /\ UNCHANGED <<categories, lessons, enrollments, instructors, procs, clock>>
  /\ UNCHANGED <<users, rest>>

\* restoreCourseService: Course.updateOne({ _id }, { $set: { isActive: true } })
RestoreCourseService(cs, c) == [cs EXCEPT ![c].isActive = TRUE]

\* course.restore()
CourseRestore(cs, c) == [cs EXCEPT ![c].isActive = TRUE]

\* restoreCourse (route: restrictTo('admin', 'instructor')); the service reads
\* the raw collection, so it sees inactive courses
RestoreCourse(u, c) ==
  /\ u \in UserIds /\ UserRole(u) \in {"instructor", "admin"}
  /\ c \in 1..MaxCourses
  /\ IF c \notin CourseIds
     THEN /\ resp' = Answer("restoreCourse", c, 0, "NotFound", [caller |-> u])
          /\ UNCHANGED <<courses, life>>
     ELSE IF courses[c].isActive
     THEN /\ resp' = Answer("restoreCourse", c, 0, "BadRequest", [caller |-> u])
          /\ UNCHANGED <<courses, life>>
     ELSE /\ courses' = CourseRestore(RestoreCourseService(courses, c), c)
          /\ life' = [life EXCEPT !.course[c] = "restored"]
          /\ resp' = Answer("restoreCourse", c, 0, "OK", [caller |-> u])
  /\ UNCHANGED <<categories, lessons, enrollments, instructors, procs, clock>>
  /\ UNCHANGED <<users, rest>>

\* getCourseById: Course.findById, then the published test
GetCourseById(c) ==
  /\ c \in 1..MaxCourses
  /\ resp' = Answer("getCourseById", c, 0,
                    IF c \notin CourseFind THEN "NotFound"
                    ELSE IF courses[c].status # "published" THEN "Forbidden" ELSE "OK",
                    NoDoc)
  /\ UNCHANGED <<categories, courses, lessons, enrollments, instructors, procs, clock, life>>
  /\ UNCHANGED <<users, rest>>

\* getAllCourses: Course.find({ status: 'published' })
GetAllCoursesResults == {c \in CourseFind : courses[c].status = "published"}


\* ---- the error middleware ---------------------------------------------------
\* globalError: the response class of a duplicate-key (E11000) store error
GlobalErrorDuplicateKey == "Conflict"

\* ---- lessons --------------------------------------------------------------
\* lessonSchema.index({ course: 1, order: 1 }, { unique: true })
LessonIndexViolated(ls, c, ord) ==
  \E l \in DOMAIN ls : ls[l].course = c /\ ls[l].order = ord

RECURSIVE MaxOf(_)
MaxOf(S) ==
  LET x == CHOOSE y \in S : TRUE
  IN IF S = {x} THEN x
     ELSE LET m == MaxOf(S \ {x}) IN IF x > m THEN x ELSE m

\* pre('save') auto-increment: findOne({ course }).sort({ order: -1 }) runs
\* the soft-delete filter, so it sees the active lessons only
LessonAutoOrder(c, ord) ==
  IF ord # 0 THEN ord
  ELSE LET active == {l \in LessonFind : lessons[l].course = c}
       IN IF active = {} THEN 1
          ELSE MaxOf({lessons[l].order : l \in active}) + 1

\* createLesson (route: restrictTo('instructor', 'admin')); ord = 0 stands
\* for a request without an order
CreateLesson(u, c, ord) ==
  /\ u \in UserIds /\ UserRole(u) \in {"instructor", "admin"}
  /\ c \in 1..MaxCourses
  /\ ord \in 0..MaxLessons
  /\ Len(lessons) < MaxLessons
  /\ IF c \notin CourseFind
     THEN /\ resp' = Answer("createLesson", 0, c, "NotFound", NoDoc)
          /\ UNCHANGED <<lessons, courses>>
     ELSE IF CourseAuth(u, c) # "pass"
     THEN /\ resp' = Answer("createLesson", 0, c, CourseAuth(u, c), NoDoc)
          /\ UNCHANGED <<lessons, courses>>
     ELSE IF courses[c].status \notin {"published", "draft"}
     THEN /\ resp' = Answer("createLesson", 0, c, "BadRequest", NoDoc)
          /\ UNCHANGED <<lessons, courses>>
     ELSE IF LessonIndexViolated(lessons, c, LessonAutoOrder(c, ord))
     THEN /\ resp' = Answer("createLesson", 0, c, GlobalErrorDuplicateKey, NoDoc)
          /\ UNCHANGED <<lessons, courses>>
     ELSE LET ls == Append(lessons, [course |-> c, order |-> LessonAutoOrder(c, ord),
                                     isActive |-> TRUE])
              hooked == LessonUpdateCourseStats(courses, ls, enrollments, c)
          IN /\ lessons' = ls
             /\ courses' = CourseUpdateStats(hooked, ls, enrollments, c)
             /\ resp' = Answer("createLesson", Len(ls), c, "Created", NoDoc)
  /\ UNCHANGED <<categories, enrollments, instructors, procs, clock, life>>
  /\ UNCHANGED <<users, rest>>

\* deleteLesson: lesson.softDelete() saves (post-save hook) and then calls
\* updateCourseStats itself
DeleteLesson(u, l) ==
  /\ u \in UserIds /\ UserRole(u) \in {"instructor", "admin"}
  /\ l \in 1..MaxLessons
  /\ IF l \notin LessonFind
     THEN /\ resp' = Answer("deleteLesson", l, 0, "NotFound", NoDoc)
          /\ UNCHANGED <<lessons, courses>>
     ELSE IF ~lessons[l].isActive
     THEN /\ resp' = Answer("deleteLesson", l, 0, "BadRequest", NoDoc)
          /\ UNCHANGED <<lessons, courses>>
     ELSE LET ls == [lessons EXCEPT ![l].isActive = FALSE]
              c == lessons[l].course
              hooked == LessonUpdateCourseStats(courses, ls, enrollments, c)
          IN /\ lessons' = ls
             /\ courses' = LessonUpdateCourseStats(hooked, ls, enrollments, c)
             /\ resp' = Answer("deleteLesson", l, c, "NoContent", NoDoc)
  /\ UNCHANGED <<categories, enrollments, instructors, procs, clock, life>>
  /\ UNCHANGED <<users, rest>>

\* lesson.restore() on a soft-deleted lesson document
LessonRestore(l) ==
  /\ l \in LessonIds
  /\ ~lessons[l].isActive
  /\ LET ls == [lessons EXCEPT ![l].isActive = TRUE]
         c == lessons[l].course
         hooked == LessonUpdateCourseStats(courses, ls, enrollments, c)
     IN /\ lessons' = ls
        /\ courses' = LessonUpdateCourseStats(hooked, ls, enrollments, c)
        /\ resp' = Answer("lessonRestore", l, c, "returned", NoDoc)
  /\ UNCHANGED <<categories, enrollments, instructors, procs, clock, life>>
  /\ UNCHANGED <<users, rest>>


\* ---- enrollments ----------------------------------------------------------
NewEnrollment(u, c) ==
  [user |-> u, course |-> c, status |-> "active", progress |-> 0,
   completedLessons |-> <<>>, completedAt |-> 0, isActive |-> TRUE]

\* enrollmentSchema.index({ user: 1, course: 1 }, { unique: true })
EnrollmentIndexOff(es, u, c) == FALSE
EnrollmentIndexViolated(es, u, c) ==
  \E e \in DOMAIN es : es[e].user = u /\ es[e].course = c

\* Enrollment.findByUserAndCourse: findOne({ user, course, isActive: true })
FindByUserAndCourse(u, c) ==
  {e \in EnrollmentFind : /\ enrollments[e].user = u
                          /\ enrollments[e].course = c
                          /\ enrollments[e].isActive = TRUE}

Signals == {"SIGINT", "SIGTERM"}

\* startServer: the database connected, the server listening, both signal
\* listeners registered with process.once, no shutdown begun
startServer ==
  [db |-> "connected", http |-> "listening", conns |-> 0, isShuttingDown |-> FALSE,
   once |-> Signals, err |-> FALSE, pc |-> "none", exit |-> "running", shutdowns |-> 0]

\* a createLesson handler task with no request
IdleWriter == [pc |-> "idle", course |-> 0, lessonCount |-> 0, uniqueStudents |-> {},
               order |-> 0, auto |-> FALSE]

IdleProc == [pc |-> "idle", user |-> 0, course |-> 0, code |-> "none",
             peers |-> {}, prior |-> FALSE]

\* a finished request stays on record only while it is part of a race
Finish(ps, p, code) ==
  IF ps[p].peers = {} THEN [ps EXCEPT ![p] = IdleProc]
  ELSE [ps EXCEPT ![p].pc = "done", ![p].code = code]

Free(p) == procs[p].pc \in {"idle", "done"}

\* enrollInCourse up to the existing-enrollment check (route:
\* restrictTo('student')); a request is served by the lowest free handler task
EnrollCheck(p, u, c) ==
  /\ p \in Procs /\ Free(p)
  /\ \A q \in Procs : q < p => ~Free(q)
  /\ u \in UserIds /\ UserRole(u) = "student"
  /\ c \in 1..MaxCourses
  /\ LET answer(code) ==
           /\ resp' = Answer("enrollInCourse", c, u, code, NoDoc)
           /\ UNCHANGED procs
     IN IF c \notin CourseFind THEN answer("NotFound")
        ELSE IF courses[c].status # "published" THEN answer("BadRequest")
        ELSE IF ObjectId("Instructor", courses[c].instructor) = ObjectId("User", u)
        THEN answer("BadRequest")
        ELSE IF FindByUserAndCourse(u, c) # {} THEN answer("Conflict")
        ELSE LET racing == {q \in Procs \ {p} : /\ procs[q].pc = "create"
                                                /\ procs[q].user = u
                                                /\ procs[q].course = c}
             IN /\ procs' = [q \in Procs |->
                    IF q = p
                    THEN [IdleProc EXCEPT !.pc = "create", !.user = u, !.course = c,
                            !.peers = racing,
                            !.prior = EnrollmentIndexViolated(enrollments, u, c)]
                    ELSE IF q \in racing
                    THEN [procs[q] EXCEPT !.peers = @ \cup {p}]
                    ELSE [procs[q] EXCEPT !.peers = @ \ {p}]]
                /\ UNCHANGED resp
  /\ UNCHANGED <<categories, courses, lessons, enrollments, instructors, clock, life>>
  /\ UNCHANGED <<users, rest>>

\* enrollInCourse: Enrollment.create, with its post-save hook updateRelatedStats
EnrollCreate(p) ==
  /\ p \in Procs /\ procs[p].pc = "create"
  /\ LET u == procs[p].user
         c == procs[p].course
     IN IF EnrollmentIndexViolated(enrollments, u, c)
        THEN /\ procs' = Finish(procs, p, GlobalErrorDuplicateKey)
             /\ resp' = Answer("enrollInCourse", c, u, GlobalErrorDuplicateKey, NoDoc)
             /\ UNCHANGED <<enrollments, courses, instructors>>
        ELSE LET es == Append(enrollments, NewEnrollment(u, c))
                 cs == RelatedCourseStats(courses, lessons, es, c)
             IN /\ enrollments' = es
                /\ courses' = cs
                /\ instructors' = RelatedInstructorStats(instructors, cs, es, c)
                /\ procs' = [procs EXCEPT ![p].pc = "stats"]
                /\ UNCHANGED resp
  /\ UNCHANGED <<categories, lessons, clock, life>>
  /\ UNCHANGED <<users, rest>>

\* enrollInCourse: course.updateStats() on the document read at the start,
\* then the 201 response
EnrollStats(p) ==
  /\ p \in Procs /\ procs[p].pc = "stats"
  /\ courses' = CourseUpdateStats(courses, lessons, enrollments, procs[p].course)
  /\ procs' = Finish(procs, p, "Created")
  /\ resp' = Answer("enrollInCourse", procs[p].course, procs[p].user, "Created", NoDoc)
  /\ UNCHANGED <<categories, lessons, enrollments, instructors, clock, life>>
  /\ UNCHANGED <<users, rest>>

\* enrollment.softDelete(): save (post-save hook), then updateRelatedStats again
EnrollmentSetActive(es, e, flag) == [es EXCEPT ![e].isActive = flag]

\* cancelEnrollment
CancelEnrollment(u, e) ==
  /\ u \in UserIds
  /\ e \in 1..(MaxStudents * MaxCourses)
  /\ IF e \notin EnrollmentFind
     THEN /\ resp' = Answer("cancelEnrollment", e, 0, "NotFound", NoDoc)
          /\ UNCHANGED <<enrollments, courses, instructors>>
     ELSE IF UserRole(u) # "admin"
             /\ ObjectId("User", enrollments[e].user) # ObjectId("User", u)
     THEN /\ resp' = Answer("cancelEnrollment", e, 0, "Forbidden", NoDoc)
          /\ UNCHANGED <<enrollments, courses, instructors>>
     ELSE IF enrollments[e].status = "cancelled"
     THEN /\ resp' = Answer("cancelEnrollment", e, 0, "BadRequest", NoDoc)
          /\ UNCHANGED <<enrollments, courses, instructors>>
     ELSE LET es == EnrollmentSetActive(enrollments, e, FALSE)
              c == enrollments[e].course
              cs1 == RelatedCourseStats(courses, lessons, es, c)
              in1 == RelatedInstructorStats(instructors, cs1, es, c)
              cs2 == RelatedCourseStats(cs1, lessons, es, c)
          IN /\ enrollments' = es
             /\ courses' = cs2
             /\ instructors' = RelatedInstructorStats(in1, cs2, es, c)
             /\ resp' = Answer("cancelEnrollment", e, c, "NoContent", NoDoc)
  /\ UNCHANGED <<categories, lessons, procs, clock, life>>
  /\ UNCHANGED <<users, rest>>

\* enrollment.restore() on a soft-deleted enrollment document
EnrollmentRestore(e) ==
  /\ e \in EnrollmentIds
  /\ ~enrollments[e].isActive
  /\ LET es == EnrollmentSetActive(enrollments, e, TRUE)
         c == enrollments[e].course
         cs1 == RelatedCourseStats(courses, lessons, es, c)
         in1 == RelatedInstructorStats(instructors, cs1, es, c)
         cs2 == RelatedCourseStats(cs1, lessons, es, c)
     IN /\ enrollments' = es
        /\ courses' = cs2
        /\ instructors' = RelatedInstructorStats(in1, cs2, es, c)
        /\ resp' = Answer("enrollmentRestore", e, c, "returned", NoDoc)
  /\ UNCHANGED <<categories, lessons, procs, clock, life>>
  /\ UNCHANGED <<users, rest>>


\* ---- progress ---------------------------------------------------------------
Range(q) == {q[j] : j \in DOMAIN q}

\* Math.round((n / total) * 100 * 10) / 10, kept in tenths of a percent
ProgressTenths(n, total) == (2 * n * 1000 + total) \div (2 * total)

\* this.completedLessons.includes(lessonId)
AlreadyCompletedNever(doc, l) == FALSE
AlreadyCompleted(doc, l) == l \in Range(doc.completedLessons)

\* Lesson.countDocuments({ course: this.course })
TotalLessons(ls, c) == LessonCountDocuments(ls, c)

\* if (this.progress >= 100) { status = 'completed'; completedAt = new Date() }
CompletionAlways(doc, stamp) ==
  [doc EXCEPT !.status = "completed", !.completedAt = stamp]
Completion(doc, stamp) ==
  IF doc.progress >= 1000
  THEN [doc EXCEPT !.status = "completed", !.completedAt = stamp]
  ELSE doc

\* if (!lesson || lesson.course.toString() !== this.course.toString()) throw
InvalidLessonNever(ls, doc, l) == FALSE
InvalidLesson(ls, doc, l) ==
  \/ ~(l \in DOMAIN ls /\ ls[l].isActive # FALSE)
  \/ ls[l].course # doc.course

\* enrollment.markLessonCompleted(lessonId) up to and including this.save():
\* the stored collection afterwards, whether it threw, whether it saved
MarkLessonCompleted(es, ls, e, l, stamp) ==
  LET doc == es[e]
      pushed == [doc EXCEPT !.completedLessons = Append(@, l)]
      total == TotalLessons(ls, doc.course)
      scored == [pushed EXCEPT !.progress =
                   ProgressTenths(Len(pushed.completedLessons), total)]
      final == Completion(scored, stamp)
  IN IF AlreadyCompleted(doc, l)
     THEN [es |-> es, threw |-> FALSE, saved |-> FALSE]
     ELSE IF InvalidLesson(ls, doc, l)
     THEN [es |-> es, threw |-> TRUE, saved |-> FALSE]
     ELSE IF final.progress > 1000
     THEN [es |-> es, threw |-> TRUE, saved |-> FALSE]
     ELSE [es |-> [es EXCEPT ![e] = final], threw |-> FALSE, saved |-> TRUE]

\* updateProgress (route: restrictTo('student')); markLessonCompleted ends
\* with the post-save hook and its own updateRelatedStats call
UpdateProgress(u, e, l) ==
  /\ u \in StudentIds
  /\ e \in 1..(MaxStudents * MaxCourses)
  /\ l \in 1..MaxLessons
  /\ IF e \notin EnrollmentFind
     THEN /\ resp' = Answer("updateProgress", e, l, "NotFound", NoDoc)
          /\ UNCHANGED <<enrollments, courses, instructors, clock>>
     ELSE IF ObjectId("User", enrollments[e].user) # ObjectId("User", u)
     THEN /\ resp' = Answer("updateProgress", e, l, "Forbidden", NoDoc)
          /\ UNCHANGED <<enrollments, courses, instructors, clock>>
     ELSE IF enrollments[e].status = "cancelled"
     THEN /\ resp' = Answer("updateProgress", e, l, "BadRequest", NoDoc)
          /\ UNCHANGED <<enrollments, courses, instructors, clock>>
     ELSE IF l \notin LessonFind
     THEN /\ resp' = Answer("updateProgress", e, l, "NotFound", NoDoc)
          /\ UNCHANGED <<enrollments, courses, instructors, clock>>
     ELSE IF lessons[l].course # enrollments[e].course
     THEN /\ resp' = Answer("updateProgress", e, l, "BadRequest", NoDoc)
          /\ UNCHANGED <<enrollments, courses, instructors, clock>>
     ELSE LET m == MarkLessonCompleted(enrollments, lessons, e, l, clock + 1)
              c == enrollments[e].course
              cs1 == RelatedCourseStats(courses, lessons, m.es, c)
              in1 == RelatedInstructorStats(instructors, cs1, m.es, c)
              cs2 == RelatedCourseStats(cs1, lessons, m.es, c)
          IN /\ enrollments' = m.es
             /\ clock' = IF m.saved /\ m.es[e].completedAt = clock + 1
                         THEN clock + 1 ELSE clock
             /\ courses' = IF m.saved THEN cs2 ELSE courses
             /\ instructors' = IF m.saved
                               THEN RelatedInstructorStats(in1, cs2, m.es, c)
                               ELSE instructors
             /\ resp' = Answer("updateProgress", e, l,
                               IF m.threw THEN "InternalError" ELSE "OK",
                               enrollments[e])
  /\ UNCHANGED <<categories, lessons, procs, life>>
  /\ UNCHANGED <<users, rest>>

\* ---- the system -------------------------------------------------------------
Init ==
  /\ categories = <<>>
  /\ courses = <<>>
  /\ lessons = <<>>
  /\ enrollments = <<>>
  /\ instructors = [i \in InstructorIds |->
                      [user |-> InstructorUser(i), totalCourses |-> 0, totalStudents |-> 0]]
  /\ procs = [p \in Procs |-> IdleProc]
  /\ clock = 0
  /\ resp = Answer("none", 0, 0, "none", NoDoc)
  /\ life = [category |-> <<>>, course |-> <<>>]
  /\ users = [u \in UserIds |-> [active |-> TRUE, role |-> RegisteredRole(u)]]
  /\ inflight = [w \in Writers |-> IdleWriter]
  /\ pricing = <<>>
  /\ server = startServer

Next ==
  \/ CreateCategory
  \/ \E k \in 1..MaxCategories : DeleteCategory(k)
  \/ \E k \in 1..MaxCategories : RestoreCategory(k)
  \/ \E k \in 1..MaxCategories : GetCategory(k)
  \/ \E u \in UserIds, k \in 1..MaxCategories : CreateCourse(u, k)
  \/ \E u \in UserIds, c \in 1..MaxCourses, st \in {"draft", "published", "archived"} :
       UpdateCourseStatus(u, c, st)
  \/ \E u \in UserIds, c \in 1..MaxCourses : DeleteCourse(u, c)
  \/ \E u \in UserIds, c \in 1..MaxCourses : RestoreCourse(u, c)
  \/ \E c \in 1..MaxCourses : GetCourseById(c)
  \/ \E u \in UserIds, c \in 1..MaxCourses, ord \in 0..MaxLessons : CreateLesson(u, c, ord)
  \/ \E u \in UserIds, l \in 1..MaxLessons : DeleteLesson(u, l)
  \/ \E l \in 1..MaxLessons : LessonRestore(l)
  \/ \E p \in Procs, u \in StudentIds, c \in 1..MaxCourses : EnrollCheck(p, u, c)
  \/ \E p \in Procs : EnrollCreate(p)
  \/ \E p \in Procs : EnrollStats(p)
  \/ \E u \in UserIds, e \in 1..(MaxStudents * MaxCourses) : CancelEnrollment(u, e)
  \/ \E e \in 1..(MaxStudents * MaxCourses) : EnrollmentRestore(e)
  \/ \E u \in StudentIds, e \in 1..(MaxStudents * MaxCourses), l \in 1..MaxLessons :
       UpdateProgress(u, e, l)

Spec == Init /\ [][Next]_vars


\* ---- focused specifications: the system under the requests of one area,
\* ---- sent by callers who act on documents that exist and that they own --------
Owner(c) == InstructorUser(courses[c].instructor)

\* categories and courses: create, soft-delete, restore, read
NextLifecycle ==
  \/ CreateCategory
  \/ \E k \in 1..MaxCategories : DeleteCategory(k)
  \/ \E k \in 1..MaxCategories : RestoreCategory(k)
  \/ \E k \in 1..MaxCategories : GetCategory(k)
  \/ \E i \in InstructorIds, k \in 1..MaxCategories : CreateCourse(InstructorUser(i), k)
  \/ \E c \in CourseIds : CreateLesson(Owner(c), c, 0)
  \/ \E c \in CourseIds, st \in {"draft", "published", "archived"} :
       UpdateCourseStatus(Owner(c), c, st)
  \/ \E c \in CourseIds : DeleteCourse(Owner(c), c)
  \/ \E c \in 1..MaxCourses : RestoreCourse(AdminUser, c)
  \/ \E c \in 1..MaxCourses : GetCourseById(c)

SpecLifecycle == Init /\ [][NextLifecycle]_vars

\* what it takes to have a published course: a category, a course, a lesson
Publishing ==
  \/ CreateCategory
  \/ \E i \in InstructorIds, k \in CategoryIds :
       Len(courses) < MaxPublishing /\ CreateCourse(InstructorUser(i), k)
  \/ \E c \in CourseIds : CreateLesson(Owner(c), c, 0)
  \/ \E c \in CourseIds : UpdateCourseStatus(Owner(c), c, "published")

\* enrollments: concurrent enrollInCourse requests, cancel, restore, progress
NextEnroll ==
  \/ Publishing
  \/ \E p \in Procs, u \in StudentIds, c \in CourseIds : EnrollCheck(p, u, c)
  \/ \E p \in Procs : EnrollCreate(p)
  \/ \E p \in Procs : EnrollStats(p)
  \/ \E e \in EnrollmentIds : CancelEnrollment(enrollments[e].user, e)
  \/ \E e \in EnrollmentIds : EnrollmentRestore(e)
  \/ \E e \in EnrollmentIds, l \in LessonIds : UpdateProgress(enrollments[e].user, e, l)

SpecEnroll == Init /\ [][NextEnroll]_vars

\* lessons and progress: lessons come and go while students complete them
NextProgress ==
  \/ Publishing
  \/ \E l \in LessonIds : DeleteLesson(Owner(lessons[l].course), l)
  \/ \E l \in LessonIds : LessonRestore(l)
  \/ \E u \in StudentIds, c \in CourseIds : EnrollCheck(1, u, c)
  \/ EnrollCreate(1)
  \/ EnrollStats(1)
  \/ \E e \in EnrollmentIds : CancelEnrollment(enrollments[e].user, e)
  \/ \E e \in EnrollmentIds, l \in LessonIds : UpdateProgress(enrollments[e].user, e, l)

SpecProgress == Init /\ [][NextProgress]_vars


\* ---- properties ---------------------------------------------------------------
CoursesOfCategory(k) == {c \in CourseIds : courses[c].category = k}

\* C1: a course or category whose last lifecycle request was a successful
\* soft-delete is left out of every find and list query and read as NotFound;
\* one whose last lifecycle request was a successful restore is active again
\* and the queries return it.
C1_DeletedOmittedRestoredReturned ==
  /\ \A c \in CourseIds :
       /\ life.course[c] = "deleted" =>
            /\ c \notin CourseFind
            /\ c \notin GetAllCoursesResults
            /\ (resp.op = "getCourseById" /\ resp.id = c) => resp.code = "NotFound"
       /\ life.course[c] = "restored" =>
            /\ courses[c].isActive
            /\ c \in CourseFind
            /\ courses[c].status = "published" => c \in GetAllCoursesResults
            /\ (resp.op = "getCourseById" /\ resp.id = c) => resp.code # "NotFound"
  /\ \A k \in CategoryIds :
       /\ life.category[k] = "deleted" =>
            /\ k \notin CategoryFind
            /\ (resp.op = "getCategory" /\ resp.id = k) => resp.code = "NotFound"
       /\ life.category[k] = "restored" =>
            /\ categories[k].isActive
            /\ k \in CategoryFind
            /\ (resp.op = "getCategory" /\ resp.id = k) => resp.code = "OK"

C1_Witness ==
  /\ resp.op = "getCourseById" /\ resp.code = "OK"
  /\ resp.id \in CourseIds /\ life.course[resp.id] = "restored"
  /\ \E k \in CategoryIds : life.category[k] = "restored"

C5_DeletedCoursesDoNotBlock ==
  (/\ resp.op = "deleteCategory"
   /\ resp.id \in CategoryIds
   /\ resp.pre = [isActive |-> TRUE]
   /\ \A c \in CoursesOfCategory(resp.id) : ~courses[c].isActive)
  => (resp.code = "NoContent" /\ ~categories[resp.id].isActive)


\* the requests that passed the existing-enrollment check together with p,
\* once every one of them has been answered
RaceOver(p) ==
  /\ procs[p].pc = "done"
  /\ procs[p].peers # {}
  /\ \A q \in procs[p].peers : procs[q].pc = "done"
Racers(p) == procs[p].peers \cup {p}
Winners(p) == {g \in Racers(p) : procs[g].code = "Created"}

\* C2 as stated: of the enrollInCourse requests for one (user, course) pair
\* that all passed the existing-enrollment check before any of them created,
\* exactly one succeeds and every other one fails with Conflict.
C2_ExactlyOneWins ==
  \A p \in Procs : RaceOver(p) =>
    /\ Cardinality(Winners(p)) = 1
    /\ \A g \in Racers(p) \ Winners(p) : procs[g].code = "Conflict"

\* C2 amended: of such requests at most one succeeds and every other one
\* fails with Conflict; exactly one succeeds when no enrollment document
\* (active or soft-deleted) existed for the pair as they passed the check, and
\* a request that passed the check over a soft-deleted document fails.
C2_AtMostOneWins ==
  \A p \in Procs : RaceOver(p) =>
    /\ Cardinality(Winners(p)) <= 1
    /\ \A g \in Racers(p) \ Winners(p) : procs[g].code = "Conflict"
    /\ (\A g \in Racers(p) : ~procs[g].prior) => Cardinality(Winners(p)) = 1
    /\ procs[p].prior => procs[p].code = "Conflict"

C2_Witness ==
  \E p \in Procs :
    /\ RaceOver(p)
    /\ procs[p].code = "Conflict" /\ ~procs[p].prior
    /\ \E q \in procs[p].peers : procs[q].code = "Created"

\* C3: no (user, course) pair ever has more than one active enrollment.
C3_OneActiveEnrollmentPerPair ==
  \A e1, e2 \in EnrollmentIds :
    (/\ enrollments[e1].user = enrollments[e2].user
     /\ enrollments[e1].course = enrollments[e2].course
     /\ enrollments[e1].isActive /\ enrollments[e2].isActive)
    => e1 = e2

C3_Witness ==
  /\ resp.op = "enrollmentRestore"
  /\ enrollments[resp.id].isActive
  /\ Len(enrollments[resp.id].completedLessons) > 0
  /\ \E p \in Procs : RaceOver(p) /\ procs[p].code = "Conflict"
                      /\ procs[p].user = enrollments[resp.id].user
                      /\ procs[p].course = enrollments[resp.id].course


\* the request answered last ran markLessonCompleted: on a lesson the
\* enrollment had already recorded, or on a new one
MarkedAgain ==
  /\ resp.op = "updateProgress" /\ resp.code = "OK"
  /\ resp.arg \in Range(resp.pre.completedLessons)
MarkedNew ==
  /\ resp.op = "updateProgress" /\ resp.code = "OK"
  /\ resp.arg \notin Range(resp.pre.completedLessons)

ActiveLessonsOf(c) == {l \in LessonIds : lessons[l].course = c /\ lessons[l].isActive}

\* C7: after markLessonCompleted records a new lesson, progress is the number
\* of completed lessons over the number of active lessons of the course, times
\* 100, rounded to one decimal.
C7_ProgressOverActiveLessons ==
  MarkedNew =>
    enrollments[resp.id].progress
      = ProgressTenths(Len(enrollments[resp.id].completedLessons),
                       Cardinality(ActiveLessonsOf(enrollments[resp.id].course)))

\* C8: recording a new lesson sets status 'completed' and stamps completedAt
\* exactly when the recomputed progress reaches 100; below 100 both stay as
\* they were.
C8_CompletedIffProgressFull ==
  MarkedNew =>
    IF enrollments[resp.id].progress >= 1000
    THEN /\ enrollments[resp.id].status = "completed"
         /\ enrollments[resp.id].completedAt = clock
         /\ enrollments[resp.id].completedAt # resp.pre.completedAt
    ELSE /\ enrollments[resp.id].status = resp.pre.status
         /\ enrollments[resp.id].completedAt = resp.pre.completedAt

C8_Witness ==
  /\ MarkedNew
  /\ enrollments[resp.id].progress < 1000
  /\ enrollments[resp.id].status = "active"
  /\ \E e \in EnrollmentIds :
       /\ enrollments[e].progress >= 1000
       /\ enrollments[e].status = "completed"
       /\ enrollments[e].completedAt > 0

ActiveEnrollmentUsers(c) ==
  {enrollments[e].user :
     e \in {x \in EnrollmentIds : enrollments[x].course = c /\ enrollments[x].isActive}}

\* C9: once a lesson or an enrollment has been soft-deleted and
\* Course.updateStats() has run, lessonsCount is the number of active lessons
\* of the course and enrolledStudents is the set of users of its active
\* enrollments.
C9_StatsCountActiveOnly ==
  (resp.op \in {"deleteLesson", "cancelEnrollment"} /\ resp.code = "NoContent") =>
    /\ courses[resp.arg].lessonsCount = Cardinality(ActiveLessonsOf(resp.arg))
    /\ courses[resp.arg].enrolledStudents = ActiveEnrollmentUsers(resp.arg)

\* the course of the enrollment operation answered last, 0 when the last
\* answer is not a successful enrollment operation
CascadeCourse ==
  IF resp.op = "enrollInCourse" /\ resp.code = "Created" THEN resp.id
  ELSE IF resp.op = "cancelEnrollment" /\ resp.code = "NoContent" THEN resp.arg
  ELSE IF resp.op = "enrollmentRestore" THEN resp.arg
  ELSE IF MarkedNew THEN enrollments[resp.id].course
  ELSE 0

\* C10: when an enrollment has been created, cancelled, restored or had a
\* lesson marked completed, the owning instructor's totalCourses and
\* totalStudents equal what Instructor.updateStats() computes from the store
\* at the time the operation returns.
C10_CascadeRecomputesInstructorTotals ==
  CascadeCourse # 0 =>
    LET i == courses[CascadeCourse].instructor
        now == InstructorStats(courses, enrollments, i)
    IN /\ instructors[i].totalCourses = now.totalCourses
       /\ instructors[i].totalStudents = now.totalStudents


\* ---- a stats recompute that fails -------------------------------------------
\* asyncHandler / globalError: the response class of an error no handler expects
GlobalErrorUnexpected == "InternalError"

\* the record of a request whose stats recompute threw
StatsFailure == [statsFailed |-> TRUE]

\* deleteLesson when the recompute of the post('save') hook throws:
\* lesson.softDelete() has saved the flag, save() rejects with the hook's
\* error, softDelete and the handler reject with it
DeleteLessonStatsFail(u, l) ==
  /\ u \in UserIds /\ UserRole(u) \in {"instructor", "admin"}
  /\ l \in LessonFind
  /\ lessons[l].isActive
  /\ lessons' = [lessons EXCEPT ![l].isActive = FALSE]
  /\ resp' = Answer("deleteLesson", l, lessons[l].course, GlobalErrorUnexpected, StatsFailure)
  /\ UNCHANGED <<categories, courses, enrollments, instructors, procs, clock, life>>
  /\ UNCHANGED <<users, rest>>

\* enrollInCourse when the recompute of the post('save') hook of
\* Enrollment.create throws: the document is stored, create() rejects
EnrollCreateStatsFail(p) ==
  /\ p \in Procs /\ procs[p].pc = "create"
  /\ ~EnrollmentIndexViolated(enrollments, procs[p].user, procs[p].course)
  /\ enrollments' = Append(enrollments, NewEnrollment(procs[p].user, procs[p].course))
  /\ procs' = Finish(procs, p, GlobalErrorUnexpected)
  /\ resp' = Answer("enrollInCourse", procs[p].course, procs[p].user,
                    GlobalErrorUnexpected, StatsFailure)
  /\ UNCHANGED <<categories, courses, lessons, instructors, clock, life>>
  /\ UNCHANGED <<users, rest>>

\* cancelEnrollment when the recompute of the post('save') hook throws
CancelEnrollmentStatsFail(u, e) ==
  /\ u \in UserIds
  /\ e \in EnrollmentFind
  /\ UserRole(u) = "admin" \/ ObjectId("User", enrollments[e].user) = ObjectId("User", u)
  /\ enrollments[e].status # "cancelled"
  /\ enrollments' = EnrollmentSetActive(enrollments, e, FALSE)
  /\ resp' = Answer("cancelEnrollment", e, enrollments[e].course,
                    GlobalErrorUnexpected, StatsFailure)
  /\ UNCHANGED <<categories, courses, lessons, instructors, procs, clock, life>>
  /\ UNCHANGED <<users, rest>>

\* lessons and enrollments written while the store may fail a recompute
NextFaults ==
  \/ Publishing
  \/ \E l \in LessonIds : DeleteLesson(Owner(lessons[l].course), l)
  \/ \E l \in LessonIds : DeleteLessonStatsFail(Owner(lessons[l].course), l)
  \/ \E u \in StudentIds, c \in CourseIds : EnrollCheck(1, u, c)
  \/ EnrollCreate(1)
  \/ EnrollCreateStatsFail(1)
  \/ EnrollStats(1)
  \/ \E e \in EnrollmentIds : CancelEnrollment(enrollments[e].user, e)
  \/ \E e \in EnrollmentIds : CancelEnrollmentStatsFail(enrollments[e].user, e)

SpecFaults == Init /\ [][NextFaults]_vars

\* C11: when the stats recompute triggered by saving or soft-deleting a lesson
\* or an enrollment fails, the write is stored and the request is answered as
\* a success.
C11_RecomputeFailureNotPropagated ==
  resp.pre = StatsFailure =>
    /\ resp.op = "deleteLesson" => ~lessons[resp.id].isActive
    /\ resp.op = "cancelEnrollment" => ~enrollments[resp.id].isActive
    /\ resp.op = "enrollInCourse" =>
         EnrollmentIndexViolated(enrollments, resp.arg, resp.id)
    /\ resp.code \in {"OK", "Created", "NoContent"}


\* ---- concurrent createLesson requests ----------------------------------------
FreeWriter(w) == inflight[w].pc = "idle"

\* createLesson up to the end of the pre('save') hook of LessonModel.create:
\* course and ownership checks, then the order the hook gives the new lesson;
\* a request is served by the lowest free handler task
LessonOrder(w, u, c, ord) ==
  /\ w \in Writers /\ FreeWriter(w)
  /\ \A x \in Writers : x < w => ~FreeWriter(x)
  /\ u \in UserIds /\ UserRole(u) \in {"instructor", "admin"}
  /\ c \in 1..MaxCourses
  /\ ord \in 0..MaxLessons
  /\ Len(lessons) + Cardinality({x \in Writers : inflight[x].pc = "insert"}) < MaxLessons
  /\ LET answer(code) ==
           /\ resp' = Answer("createLesson", 0, c, code, NoDoc)
           /\ UNCHANGED inflight
     IN IF c \notin CourseFind THEN answer("NotFound")
        ELSE IF CourseAuth(u, c) # "pass" THEN answer(CourseAuth(u, c))
        ELSE IF courses[c].status \notin {"published", "draft"} THEN answer("BadRequest")
        ELSE /\ inflight' = [inflight EXCEPT ![w] =
                               [IdleWriter EXCEPT !.pc = "insert", !.course = c,
                                                  !.order = LessonAutoOrder(c, ord),
                                                  !.auto = (ord = 0)]]
             /\ UNCHANGED resp
  /\ UNCHANGED <<categories, courses, lessons, enrollments, instructors, procs, clock, life>>
  /\ UNCHANGED <<users, pricing, server>>

\* createLesson: the insert of LessonModel.create under the unique index, its
\* post('save') hook updateCourseStats, then the three reads of
\* courseDoc.updateStats()
LessonInsert(w) ==
  /\ w \in Writers /\ inflight[w].pc = "insert"
  /\ LET c == inflight[w].course
         ord == inflight[w].order
     IN IF LessonIndexViolated(lessons, c, ord)
        THEN /\ inflight' = [inflight EXCEPT ![w] = IdleWriter]
             /\ resp' = Answer("createLesson", 0, c, GlobalErrorDuplicateKey,
                               [autoOrder |-> inflight[w].auto])
             /\ UNCHANGED <<lessons, courses>>
        ELSE LET ls == Append(lessons, [course |-> c, order |-> ord, isActive |-> TRUE])
             IN /\ lessons' = ls
                /\ courses' = LessonUpdateCourseStats(courses, ls, enrollments, c)
                /\ inflight' = [inflight EXCEPT ![w].pc = "save",
                                  ![w].lessonCount = LessonCountDocuments(ls, c),
                                  ![w].uniqueStudents = EnrollmentDistinctUsers(enrollments, c)]
                /\ UNCHANGED resp
  /\ UNCHANGED <<categories, enrollments, instructors, procs, clock, life>>
  /\ UNCHANGED <<users, pricing, server>>

\* createLesson: courseDoc.updateStats() assigns what it read and saves the
\* course document loaded when the request began, then the 201 response
LessonStatsSave(w) ==
  /\ w \in Writers /\ inflight[w].pc = "save"
  /\ courses' = [courses EXCEPT
                   ![inflight[w].course].lessonsCount = inflight[w].lessonCount,
                   ![inflight[w].course].enrolledStudents = inflight[w].uniqueStudents]
  /\ inflight' = [inflight EXCEPT ![w] = IdleWriter]
  /\ resp' = Answer("createLesson", 0, inflight[w].course, "Created",
                    [autoOrder |-> inflight[w].auto])
  /\ UNCHANGED <<categories, lessons, enrollments, instructors, procs, clock, life>>
  /\ UNCHANGED <<users, pricing, server>>

\* lessons of one course written by concurrent requests
NextStats ==
  \/ CreateCategory
  \/ \E i \in InstructorIds, k \in CategoryIds : CreateCourse(InstructorUser(i), k)
  \/ \E w \in Writers, c \in CourseIds, ord \in 0..MaxLessons :
       LessonOrder(w, Owner(c), c, ord)
  \/ \E w \in Writers : LessonInsert(w)
  \/ \E w \in Writers : LessonStatsSave(w)
  \/ \E l \in LessonIds : DeleteLesson(Owner(lessons[l].course), l)
  \/ \E l \in LessonIds : LessonRestore(l)

SpecStats == Init /\ [][NextStats]_vars

\* no createLesson or enrollInCourse request is between two of its steps
Quiescent ==
  /\ \A w \in Writers : inflight[w].pc = "idle"
  /\ \A p \in Procs : procs[p].pc \in {"idle", "done"}

\* C12: once every Course.updateStats() triggered by concurrent lesson and
\* enrollment writes has completed and no write is in flight, lessonsCount and
\* enrolledStudents of the course are what a fresh recompute over the store gives.
C12_CountersConsistentWhenQuiescent ==
  Quiescent =>
    \A c \in CourseFind :
      courses[c] = CourseUpdateStats(courses, lessons, enrollments, c)[c]


\* C13: a soft-delete request on an entity that is already inactive is
\* answered with a BadRequest-class condition and leaves the entity inactive
\* (stated on deleteCategory, whose record keeps the stored document it met).
C13_DeleteInactiveIsBadRequest ==
  (/\ resp.op = "deleteCategory"
   /\ resp.id \in CategoryIds
   /\ ~resp.pre.isActive) =>
    /\ resp.code = "BadRequest"
    /\ ~categories[resp.id].isActive


\* ---- users and instructor profiles -------------------------------------------
\* userSchema.pre(/^find/): this.find({ active: { $ne: false } })
UserPreFind(u) == users[u].active # FALSE
UserFind == {u \in UserIds : UserPreFind(u)}

\* the instructor schema has no isActive path and its pre(/^find/) only populates
InstructorFind == DOMAIN instructors

\* getUser
GetUser(u) ==
  /\ u \in UserIds
  /\ resp' = Answer("getUser", u, 0,
                    IF u \notin UserFind \/ ~users[u].active THEN "NotFound" ELSE "OK",
                    users[u])
  /\ UNCHANGED <<categories, courses, lessons, enrollments, instructors, procs, clock, life>>
  /\ UNCHANGED <<users, rest>>

\* deleteUser (route: restrictTo('admin'))
DeleteUser(a, u) ==
  /\ a \in UserIds /\ UserRole(a) = "admin"
  /\ u \in UserIds
  /\ IF u \notin UserFind
     THEN /\ resp' = Answer("deleteUser", u, 0, "NotFound", users[u])
          /\ UNCHANGED users
     ELSE IF ~users[u].active
     THEN /\ resp' = Answer("deleteUser", u, 0, "BadRequest", users[u])
          /\ UNCHANGED users
     ELSE /\ users' = [users EXCEPT ![u].active = FALSE]
          /\ resp' = Answer("deleteUser", u, 0, "NoContent", users[u])
  /\ UNCHANGED <<categories, courses, lessons, enrollments, instructors, procs, clock, life>>
  /\ UNCHANGED rest

\* deleteMe
DeleteMe(u) ==
  /\ u \in UserIds
  /\ IF u \notin UserFind
     THEN /\ resp' = Answer("deleteMe", u, 0, "NotFound", users[u])
          /\ UNCHANGED users
     ELSE /\ users' = [users EXCEPT ![u].active = FALSE]
          /\ resp' = Answer("deleteMe", u, 0, "NoContent", users[u])
  /\ UNCHANGED <<categories, courses, lessons, enrollments, instructors, procs, clock, life>>
  /\ UNCHANGED rest

\* reactivateUserService: the raw document has no isActive field (the schema's
\* flag is `active`), so the already-active test never throws; updateOne sets
\* isActive, which is not a path of the schema, so `active` keeps its value;
\* the result is what the filtered findById returns
ReactivateUserService(us, u) == us

\* reactivateUser (route: restrictTo('admin'))
ReactivateUser(a, u) ==
  /\ a \in UserIds /\ UserRole(a) = "admin"
  /\ u \in UserIds
  /\ users' = ReactivateUserService(users, u)
  /\ resp' = Answer("reactivateUser", u, 0,
                    IF ReactivateUserService(users, u)[u].active # FALSE THEN "OK" ELSE "NotFound",
                    users[u])
  /\ UNCHANGED <<categories, courses, lessons, enrollments, instructors, procs, clock, life>>
  /\ UNCHANGED rest

\* getInstructor
GetInstructor(i) ==
  /\ i \in 1..MaxInstructors
  /\ resp' = Answer("getInstructor", i, 0,
                    IF i \in InstructorFind THEN "OK" ELSE "NotFound", NoDoc)
  /\ UNCHANGED <<categories, courses, lessons, enrollments, instructors, procs, clock, life>>
  /\ UNCHANGED <<users, rest>>

\* deleteInstructor (route: restrictTo('admin')): findByIdAndUpdate sets
\* isActive, which is not a path of the instructor schema, and the user's
\* role becomes 'student'
DeleteInstructor(a, i) ==
  /\ a \in UserIds /\ UserRole(a) = "admin"
  /\ i \in 1..MaxInstructors
  /\ IF i \notin InstructorFind
     THEN /\ resp' = Answer("deleteInstructor", i, 0, "NotFound", NoDoc)
          /\ UNCHANGED users
     ELSE IF ObjectId("User", a) = ObjectId("User", instructors[i].user)
     THEN /\ resp' = Answer("deleteInstructor", i, 0, "Forbidden", NoDoc)
          /\ UNCHANGED users
     ELSE /\ users' = [users EXCEPT ![instructors[i].user].role = "student"]
          /\ resp' = Answer("deleteInstructor", i, 0, "NoContent", users[instructors[i].user])
  /\ UNCHANGED <<categories, courses, lessons, enrollments, instructors, procs, clock, life>>
  /\ UNCHANGED rest

\* restoreInstructor (route: restrictTo('admin')): the service returns the
\* document, whose isActive is undefined, and instructor.restore is not a
\* method of the instructor schema
RestoreInstructor(a, i) ==
  /\ a \in UserIds /\ UserRole(a) = "admin"
  /\ i \in 1..MaxInstructors
  /\ resp' = Answer("restoreInstructor", i, 0,
                    IF i \notin DOMAIN instructors THEN "NotFound"
                    ELSE IF "restore" \in InstructorMethods THEN "OK"
                    ELSE GlobalErrorUnexpected,
                    IF i \in DOMAIN instructors THEN users[instructors[i].user] ELSE NoDoc)
  /\ users' = IF i \in DOMAIN instructors /\ "restore" \in InstructorMethods
              THEN [users EXCEPT ![instructors[i].user].role = "instructor"]
              ELSE users
  /\ UNCHANGED <<categories, courses, lessons, enrollments, instructors, procs, clock, life>>
  /\ UNCHANGED rest

\* the active admins, who pass protect and restrictTo('admin')
Admins == {a \in UserFind : UserRole(a) = "admin"}

\* accounts: users and instructor profiles deleted and brought back
NextAccounts ==
  \/ \E u \in UserIds : GetUser(u)
  \/ \E a \in Admins, u \in UserIds : DeleteUser(a, u)
  \/ \E u \in UserFind : DeleteMe(u)
  \/ \E a \in Admins, u \in UserIds : ReactivateUser(a, u)
  \/ \E i \in 1..MaxInstructors : GetInstructor(i)
  \/ \E a \in Admins, i \in 1..MaxInstructors : DeleteInstructor(a, i)
  \/ \E a \in Admins, i \in 1..MaxInstructors : RestoreInstructor(a, i)

SpecAccounts == Init /\ [][NextAccounts]_vars

\* C14: after deleteInstructor succeeds the instructor is left out of
\* getAllInstructors / getInstructor, and a restoreInstructor on an instructor
\* deleted that way succeeds and makes it visible again.
C14_InstructorDeletedThenRestored ==
  /\ (resp.op = "deleteInstructor" /\ resp.code = "NoContent") =>
       resp.id \notin InstructorFind
  /\ (resp.op = "restoreInstructor" /\ resp.id \in DOMAIN instructors
        /\ resp.pre.role = "student") =>
       (resp.code = "OK" /\ resp.id \in InstructorFind)

\* C15: reactivateUser on a soft-deleted user succeeds and the user is active
\* and found again; reactivateUser on an active user is rejected.
C15_ReactivateUser ==
  /\ (resp.op = "reactivateUser" /\ ~resp.pre.active) =>
       (resp.code = "OK" /\ users[resp.id].active /\ resp.id \in UserFind)
  /\ (resp.op = "reactivateUser" /\ resp.pre.active) => resp.code # "OK"


\* C16: a createLesson request without an order succeeds, and no two lessons
\* of one course have the same order, soft-deleted lessons and concurrent
\* requests included.
C16_AutoOrderSucceedsAndIsUnique ==
  /\ (resp.op = "createLesson" /\ resp.pre = [autoOrder |-> TRUE]) => resp.code = "Created"
  /\ \A l1, l2 \in LessonIds :
       (l1 # l2 /\ lessons[l1].course = lessons[l2].course) =>
         lessons[l1].order # lessons[l2].order


\* ---- course prices -------------------------------------------------------------
Prices == 0..MaxPrice

\* a request body's price fields: each one present or absent
PriceFields == [hasPrice : BOOLEAN, price : Prices, hasDiscount : BOOLEAN, discountPrice : Prices]

\* createCourseSchema: price required; refine(!discountPrice || discountPrice < price)
CreateCourseSchemaOk(b) ==
  /\ b.hasPrice
  /\ (~b.hasDiscount \/ b.discountPrice = 0 \/ b.discountPrice < b.price)

\* updateCourseSchema: the refine compares only when both fields are given,
\* and at least one field must be given
UpdateCourseSchemaOk(b) ==
  /\ (b.hasDiscount /\ b.hasPrice) => b.discountPrice < b.price
  /\ b.hasDiscount \/ b.hasPrice

\* courseSchema.discountPrice validator: !val || val < this.price
DiscountValidator(doc) ==
  ~doc.hasDiscount \/ doc.discountPrice = 0 \/ doc.discountPrice < doc.price

\* Object.assign(course, updates): the fields given replace the stored ones
AssignPrices(doc, b) ==
  [price |-> IF b.hasPrice THEN b.price ELSE doc.price,
   hasDiscount |-> IF b.hasDiscount THEN TRUE ELSE doc.hasDiscount,
   discountPrice |-> IF b.hasDiscount THEN b.discountPrice ELSE doc.discountPrice]

\* course.save() validates the modified paths only: the discountPrice
\* validator runs when discountPrice itself was given a new value
SaveValidates(old, new) ==
  (new.hasDiscount # old.hasDiscount \/ new.discountPrice # old.discountPrice)
    => DiscountValidator(new)

\* globalError: the response class of a Mongoose ValidationError
GlobalErrorValidation == "BadRequest"

\* createCourse with the price fields of its body
CreateCoursePriced(u, k, b) ==
  /\ u \in UserIds /\ UserRole(u) = "instructor"
  /\ k \in 1..MaxCategories
  /\ b \in PriceFields
  /\ Len(courses) < MaxCourses
  /\ LET doc == [price |-> b.price, hasDiscount |-> b.hasDiscount,
                 discountPrice |-> b.discountPrice]
         refuse(code) ==
           /\ resp' = Answer("createCourse", 0, k, code, b)
           /\ UNCHANGED <<courses, life, pricing>>
     IN IF ~CreateCourseSchemaOk(b) THEN refuse("BadRequest")
        ELSE IF InstructorOfUser(u) = {} THEN refuse("Forbidden")
        ELSE IF k \notin CategoryFind THEN refuse("BadRequest")
        ELSE IF ~DiscountValidator(doc) THEN refuse(GlobalErrorValidation)
        ELSE /\ courses' = Append(courses,
                             NewCourse(k, CHOOSE x \in InstructorOfUser(u) : TRUE))
             /\ pricing' = (Len(courses) + 1 :> doc) @@ pricing
             /\ life' = [life EXCEPT !.course = Append(@, "created")]
             /\ resp' = Answer("createCourse", Len(courses) + 1, k, "Created", b)
  /\ UNCHANGED <<categories, lessons, enrollments, instructors, procs, clock>>
  /\ UNCHANGED <<users, inflight, server>>

\* updateCourse (route: restrictTo('instructor', 'admin')) with the price
\* fields of its body
UpdateCourse(u, c, b) ==
  /\ u \in UserIds /\ UserRole(u) \in {"instructor", "admin"}
  /\ c \in 1..MaxCourses
  /\ b \in PriceFields
  /\ LET refuse(code) ==
           /\ resp' = Answer("updateCourse", c, 0, code, [caller |-> u, body |-> b])
           /\ UNCHANGED pricing
     IN IF c \notin CourseFind \/ c \notin DOMAIN pricing THEN refuse("NotFound")
        ELSE IF CourseAuth(u, c) # "pass" THEN refuse(CourseAuth(u, c))
        ELSE IF ~UpdateCourseSchemaOk(b) THEN refuse("BadRequest")
        ELSE IF ~SaveValidates(pricing[c], AssignPrices(pricing[c], b))
        THEN refuse(GlobalErrorValidation)
        ELSE /\ pricing' = [pricing EXCEPT ![c] = AssignPrices(pricing[c], b)]
             /\ resp' = Answer("updateCourse", c, 0, "OK", [caller |-> u, body |-> b])
  /\ UNCHANGED <<categories, courses, lessons, enrollments, instructors, procs, clock, life>>
  /\ UNCHANGED <<users, inflight, server>>

\* courses created and repriced by their owner
NextPricing ==
  \/ CreateCategory
  \/ \E i \in InstructorIds, k \in CategoryIds, b \in PriceFields :
       CreateCoursePriced(InstructorUser(i), k, b)
  \/ \E c \in CourseIds, b \in PriceFields : UpdateCourse(Owner(c), c, b)

SpecPricing == Init /\ [][NextPricing]_vars

EnrollmentMarkLessonCompleted(e, l) ==
  /\ e \in EnrollmentFind
  /\ l \in 1..MaxLessons
  /\ LET m == MarkLessonCompleted(enrollments, lessons, e, l, clock + 1)
         c == enrollments[e].course
         cs1 == RelatedCourseStats(courses, lessons, m.es, c)
         in1 == RelatedInstructorStats(instructors, cs1, m.es, c)
         cs2 == RelatedCourseStats(cs1, lessons, m.es, c)
     IN /\ enrollments' = m.es
        /\ clock' = IF m.saved /\ m.es[e].completedAt = clock + 1 THEN clock + 1 ELSE clock
        /\ courses' = IF m.saved THEN cs2 ELSE courses
        /\ instructors' = IF m.saved THEN RelatedInstructorStats(in1, cs2, m.es, c)
                          ELSE instructors
        /\ resp' = Answer("markLessonCompleted", e, l,
                          IF m.threw THEN "threw" ELSE "returned", enrollments[e])
  /\ UNCHANGED <<categories, lessons, procs, life>>
  /\ UNCHANGED <<users, rest>>

\* two courses with lessons, students enrolled in them, lessons marked
\* completed on any enrollment
NextCrossCourse ==
  \/ CreateCategory
  \/ \E i \in InstructorIds, k \in CategoryIds : CreateCourse(InstructorUser(i), k)
  \/ \E c \in CourseIds : CreateLesson(Owner(c), c, 0)
  \/ \E c \in CourseIds : UpdateCourseStatus(Owner(c), c, "published")
  \/ \E u \in StudentIds, c \in CourseIds : EnrollCheck(1, u, c)
  \/ EnrollCreate(1)
  \/ EnrollStats(1)
  \/ \E e \in EnrollmentIds, l \in LessonIds : UpdateProgress(enrollments[e].user, e, l)
  \/ \E e \in EnrollmentIds, l \in LessonIds : EnrollmentMarkLessonCompleted(e, l)

SpecCrossCourse == Init /\ [][NextCrossCourse]_vars

\* the request answered last named a lesson of another course than the
\* enrollment's
LessonOfOtherCourse ==
  /\ resp.op \in {"markLessonCompleted", "updateProgress"}
  /\ resp.id \in EnrollmentIds
  /\ resp.arg \in LessonIds
  /\ lessons[resp.arg].course # enrollments[resp.id].course

\* C18: markLessonCompleted with a lesson of another course than the
\* enrollment's throws and leaves the stored enrollment as it was; updateProgress
\* refuses such a lesson with a BadRequest before it reaches the method.
C18_MismatchedLessonRejected ==
  LessonOfOtherCourse =>
    /\ resp.op = "markLessonCompleted" =>
         (resp.code = "threw" /\ enrollments[resp.id] = resp.pre)
    /\ resp.op = "updateProgress" => resp.code = "BadRequest"

C18_Witness ==
  /\ LessonOfOtherCourse
  /\ resp.op = "markLessonCompleted"
  /\ resp.code = "threw"
  /\ enrollments[resp.id] = resp.pre


\* ---- list endpoints: query schemas and the query pipeline ---------------------
MaxPage == 3
MaxLimit == 2

\* String.prototype.toLowerCase over the letters the texts below are written in
LowerChar(ch) ==
  CASE ch = "A" -> "a"
    [] ch = "B" -> "b"
    [] ch = "I" -> "i"
    [] ch = "S" -> "s"
    [] OTHER -> ch
ToLowerCase(s) == [j \in DOMAIN s |-> LowerChar(s[j])]

\* zod's .trim(): leading and trailing blanks removed
RECURSIVE TrimStart(_)
TrimStart(s) == IF s # <<>> /\ Head(s) = " " THEN TrimStart(Tail(s)) ELSE s
RECURSIVE TrimEnd(_)
TrimEnd(s) ==
  IF s # <<>> /\ s[Len(s)] = " " THEN TrimEnd(SubSeq(s, 1, Len(s) - 1)) ELSE s
Trim(s) == TrimEnd(TrimStart(s))

\* t occurs in s as a contiguous run of characters
Includes(s, t) ==
  \E j \in 0..(Len(s) - Len(t)) : SubSeq(s, j + 1, j + Len(t)) = t

\* the texts the stored documents were created with: the n-th course's title and
\* description, the n-th category's name and description
CourseTitle(c) ==
  IF c = 1 THEN <<"B", "a", "s", "i", "c">> ELSE <<"b", "a", "k", "e", "s">>
CourseDescription(c) ==
  IF c = 1 THEN <<"i", "n", "t", "r", "o">> ELSE <<"S", "I", "d", "e", "s">>
CourseTexts(c) == {CourseTitle(c), CourseDescription(c)}
CategoryName(k) == <<"b", "a", "k", "e">>
CategoryDescription(k) == <<"f", "o", "o", "d">>
CategoryTexts(k) == {CategoryName(k), CategoryDescription(k)}

\* the search terms requests carry
Terms ==
  { <<"b">>, <<" ", "b">>, <<"b", "A">>, <<"s", "i">>, <<"z", "z">> }

\* the sort parameters requests carry: a field name, with or without the "-"
\* prefix; password is a field of no whitelist
Sorts == [desc : BOOLEAN, field : {"createdAt", "password"}]

\* the query strings requests carry: page and limit, and search and sort
\* present (a one-element set) or absent (the empty set)
Queries ==
  [page : 1..MaxPage, limit : 1..MaxLimit, search : {{}} \cup {{t} : t \in Terms},
   sort : {{}}]
SortQueries ==
  [page : {1}, limit : {MaxLimit}, search : {{}}, sort : {{srt} : srt \in Sorts}]
AllQueries == Queries \cup SortQueries

\* the whitelists of the query schemas: courseQuerySchema's regex,
\* categoryQuerySchema's enum, userQuerySchema's sortableFields
CourseSortable == {"title", "price", "averageRating", "createdAt", "duration"}
CategorySortable == {"name", "createdAt", "courseCount"}
UserSortable == {"name", "createdAt", "email"}

\* courseQuerySchema.parse: search is z.string().trim().min(2).optional(); the
\* parsed value is the trimmed one
CourseQuerySchemaOk(q) ==
  /\ \A t \in q.search : Len(Trim(t)) >= 2
  /\ \A srt \in q.sort : srt.field \in CourseSortable
\* categoryQuerySchema.parse: search is z.string().trim().min(1).optional(),
\* sort an enum
CategoryQuerySchemaOk(q) ==
  /\ \A t \in q.search : Len(Trim(t)) >= 1
  /\ \A srt \in q.sort : srt.field \in CategorySortable
\* instructorQuerySchema.parse: search as for categories, sort any string
InstructorQuerySchemaOk(q) == \A t \in q.search : Len(Trim(t)) >= 1
\* userQuerySchema.parse: a strict object with role, page, limit and sort only;
\* sort has a transform and a .catch(undefined), and fails for no value
UserQuerySchemaOk(q) == q.search = {}
QueryParams(q) == [q EXCEPT !.search = {Trim(t) : t \in q.search}]
\* userQuerySchema's sort transform: a value naming a field outside
\* sortableFields becomes undefined
UserQueryParams(q) ==
  [QueryParams(q) EXCEPT !.sort = {srt \in q.sort : srt.field \in UserSortable}]

\* a ZodError thrown by parse reaches the global error handler
GlobalErrorZod == "BadRequest"

\* ApiFeatures.search(fields): ignored unless the term has at least 2
\* characters; otherwise a case-insensitive substring match in some field
ApiFeaturesSearch(S, q, texts) ==
  IF \E t \in q.search : Len(t) >= 2
  THEN {x \in S : \E t \in q.search, f \in texts[x] :
                    Includes(ToLowerCase(f), ToLowerCase(t))}
  ELSE S

\* ApiFeatures.sort() without a sort parameter: creation time, newest first
RECURSIVE ApiFeaturesSort(_)
ApiFeaturesSort(S) ==
  IF S = {} THEN <<>> ELSE <<MaxOf(S)>> \o ApiFeaturesSort(S \ {MaxOf(S)})

\* ApiFeatures.sort() with a sort parameter: ascending, or descending with the
\* "-" prefix; documents that tie on the field keep their insertion order, and
\* the documents carry no field but createdAt that tells them apart
RECURSIVE Reverse(_)
Reverse(sq) == IF sq = <<>> THEN <<>> ELSE Reverse(Tail(sq)) \o <<Head(sq)>>
ApiFeaturesSortBy(S, q) ==
  IF \E srt \in q.sort : ~srt.desc
  THEN Reverse(ApiFeaturesSort(S))
  ELSE ApiFeaturesSort(S)

CeilDiv(a, b) == (a + b - 1) \div b

\* ApiFeatures.paginate() and execute(): the skip/limit window and the counts
ApiFeaturesPaginate(sorted, q) ==
  LET total == Len(sorted)
      totalPages == CeilDiv(total, q.limit)
      skip == (q.page - 1) * q.limit
      last == IF skip + q.limit < total THEN skip + q.limit ELSE total
  IN [results |-> SubSeq(sorted, skip + 1, last),
      pagination |-> [page |-> q.page, limit |-> q.limit, total |-> total,
                      totalPages |-> totalPages,
                      hasNext |-> q.page < totalPages,
                      hasPrevious |-> q.page > 1]]

ApiFeaturesExecute(S, q, texts) ==
  LET w == ApiFeaturesPaginate(ApiFeaturesSortBy(ApiFeaturesSearch(S, q, texts), q), q)
  IN [results |-> w.results, pagination |-> w.pagination, sort |-> q.sort]

\* what a list handler leaves in resp.pre: the query, whether the pipeline ran,
\* and what it returned
Listed(q, out) == [query |-> q, ran |-> TRUE, out |-> out]
NotListed(q) == [query |-> q, ran |-> FALSE, out |-> <<>>]

\* Course.find({ status: 'published' }) through the pipeline
ListCourses(q) ==
  ApiFeaturesExecute({c \in CourseFind : courses[c].status = "published"}, q,
                     [c \in CourseIds |-> CourseTexts(c)])
\* Category.find() through the pipeline
ListCategories(q) ==
  ApiFeaturesExecute(CategoryFind, q, [k \in CategoryIds |-> CategoryTexts(k)])
\* UserModel.find({ active: true }) through the pipeline; userName is not
\* searched, the schema admitting no search term
ListUsers(q) ==
  ApiFeaturesExecute({u \in UserFind : users[u].active}, q,
                     [u \in UserIds |-> {}])

\* InstructorModel.find() through the pipeline
InstructorTitle(i) == <<"b", "a", "k", "e", "r">>
InstructorBio(i) == <<"B", "r", "e", "a", "d">>
InstructorTexts(i) == {InstructorTitle(i), InstructorBio(i)}
ListInstructors(q) ==
  ApiFeaturesExecute(InstructorFind, q, [i \in DOMAIN instructors |-> InstructorTexts(i)])

\* getAllCourses
GetAllCourses(q) ==
  /\ q \in AllQueries
  /\ resp' = IF ~CourseQuerySchemaOk(q)
             THEN Answer("getAllCourses", 0, 0, GlobalErrorZod, NotListed(q))
             ELSE Answer("getAllCourses", 0, 0, "OK",
                         Listed(q, ListCourses(QueryParams(q))))
  /\ UNCHANGED <<categories, courses, lessons, enrollments, instructors, procs, clock, life>>
  /\ UNCHANGED <<users, rest>>

\* getAllCategories
GetAllCategories(q) ==
  /\ q \in AllQueries
  /\ resp' = IF ~CategoryQuerySchemaOk(q)
             THEN Answer("getAllCategories", 0, 0, GlobalErrorZod, NotListed(q))
             ELSE Answer("getAllCategories", 0, 0, "OK",
                         Listed(q, ListCategories(QueryParams(q))))
  /\ UNCHANGED <<categories, courses, lessons, enrollments, instructors, procs, clock, life>>
  /\ UNCHANGED <<users, rest>>

\* getAllUsers (route: protect, restrictTo('admin'))
GetAllUsers(a, q) ==
  /\ a \in Admins
  /\ q \in AllQueries
  /\ resp' = IF ~UserQuerySchemaOk(q)
             THEN Answer("getAllUsers", 0, 0, GlobalErrorZod, NotListed(q))
             ELSE LET out == ListUsers(UserQueryParams(q))
                  IN Answer("getAllUsers", 0, 0,
                            IF Len(out.results) = 0 THEN "NotFound" ELSE "OK",
                            Listed(q, out))
  /\ UNCHANGED <<categories, courses, lessons, enrollments, instructors, procs, clock, life>>
  /\ UNCHANGED <<users, rest>>

\* getAllInstructors
GetAllInstructors(q) ==
  /\ q \in AllQueries
  /\ resp' = IF ~InstructorQuerySchemaOk(q)
             THEN Answer("getAllInstructors", 0, 0, GlobalErrorZod, NotListed(q))
             ELSE Answer("getAllInstructors", 0, 0, "OK",
                         Listed(q, ListInstructors(QueryParams(q))))
  /\ UNCHANGED <<categories, courses, lessons, enrollments, instructors, procs, clock, life>>
  /\ UNCHANGED <<users, rest>>

\* the queries without a search term, and those for the first page
PagingQueries == {q \in Queries : q.search = {}}
SearchQueries == {q \in Queries : q.page = 1}

\* courses are created, given a lesson, published and deleted, users are
\* deactivated, and the three lists are read page by page
NextListing ==
  \/ CreateCategory
  \/ \E i \in InstructorIds, k \in CategoryIds : CreateCourse(InstructorUser(i), k)
  \/ \E c \in CourseIds : CreateLesson(Owner(c), c, 0)
  \/ \E c \in CourseIds : UpdateCourseStatus(Owner(c), c, "published")
  \/ \E c \in CourseIds : DeleteCourse(Owner(c), c)
  \/ \E a \in Admins, u \in UserIds : DeleteUser(a, u)
  \/ \E q \in PagingQueries : GetAllCourses(q)
  \/ \E q \in PagingQueries : GetAllCategories(q)
  \/ \E a \in UserIds, q \in PagingQueries \cup SearchQueries : GetAllUsers(a, q)

SpecListing == Init /\ [][NextListing]_vars

\* the same courses and categories, the lists read with any search term
NextSearch ==
  \/ CreateCategory
  \/ \E i \in InstructorIds, k \in CategoryIds : CreateCourse(InstructorUser(i), k)
  \/ \E c \in CourseIds : CreateLesson(Owner(c), c, 0)
  \/ \E c \in CourseIds : UpdateCourseStatus(Owner(c), c, "published")
  \/ \E c \in CourseIds : DeleteCourse(Owner(c), c)
  \/ \E q \in Queries : GetAllCourses(q)
  \/ \E q \in Queries : GetAllCategories(q)
  \/ \E q \in Queries : GetAllInstructors(q)

SpecSearch == Init /\ [][NextSearch]_vars

\* the request answered last was a list call whose pipeline ran
ListAnswered ==
  /\ resp.op \in {"getAllCourses", "getAllCategories", "getAllUsers", "getAllInstructors"}
  /\ resp.pre.ran

\* C19: every paginated list call returns at most limit results, and a call
\* with page > totalPages is answered successfully with an empty result set
\* and hasNext = false.
C19_PageBeyondLastIsEmptySuccess ==
  ListAnswered =>
    LET out == resp.pre.out
    IN /\ Len(out.results) <= out.pagination.limit
       /\ out.pagination.page > out.pagination.totalPages =>
            /\ out.results = <<>>
            /\ ~out.pagination.hasNext
            /\ resp.code = "OK"


\* the list call answered last, made again without its search term
Unsearched ==
  LET q == [resp.pre.query EXCEPT !.search = {}]
  IN CASE resp.op = "getAllCourses" -> ListCourses(q)
       [] resp.op = "getAllCategories" -> ListCategories(q)
       [] OTHER -> ListInstructors(q)

\* the texts of record x that the list call answered last searches
SearchedTexts(x) ==
  CASE resp.op = "getAllCourses" -> CourseTexts(x)
    [] resp.op = "getAllCategories" -> CategoryTexts(x)
    [] OTHER -> InstructorTexts(x)

\* C20: on a list endpoint a search term of one character is ignored, the call
\* returning what the same call without search returns; a term of two or more
\* characters restricts the results to records with a case-insensitive
\* substring match in one of the searched fields.
C20_SearchIgnoredOrSubstring ==
  (resp.op \in {"getAllCourses", "getAllCategories", "getAllInstructors"}) =>
    \A t \in resp.pre.query.search :
      /\ Len(Trim(t)) = 1 =>
           /\ resp.code = "OK"
           /\ resp.pre.ran
           /\ resp.pre.out = Unsearched
      /\ Len(Trim(t)) >= 2 =>
           /\ resp.code = "OK"
           /\ resp.pre.ran
           /\ \A j \in DOMAIN resp.pre.out.results :
                \E f \in SearchedTexts(resp.pre.out.results[j]) :
                  Includes(ToLowerCase(f), ToLowerCase(Trim(t)))


\* ---- sort parameters ---------------------------------------------------------
\* the lists are read with any sort parameter
NextSorting ==
  \/ CreateCategory
  \/ \E i \in InstructorIds, k \in CategoryIds : CreateCourse(InstructorUser(i), k)
  \/ \E c \in CourseIds : CreateLesson(Owner(c), c, 0)
  \/ \E c \in CourseIds : UpdateCourseStatus(Owner(c), c, "published")
  \/ \E a \in Admins, u \in UserIds : DeleteUser(a, u)
  \/ \E q \in SortQueries : GetAllCourses(q)
  \/ \E q \in SortQueries : GetAllCategories(q)
  \/ \E q \in SortQueries : GetAllInstructors(q)
  \/ \E a \in UserIds, q \in SortQueries : GetAllUsers(a, q)

SpecSorting == Init /\ [][NextSorting]_vars

\* the sortable fields of the list endpoint answered last; instructorQuerySchema
\* names none
Sortable ==
  CASE resp.op = "getAllCourses" -> CourseSortable
    [] resp.op = "getAllCategories" -> CategorySortable
    [] resp.op = "getAllUsers" -> UserSortable
    [] OTHER -> {}

\* C21: on every list endpoint a sort parameter naming a field outside the
\* endpoint's whitelist fails validation at the schema layer: the pipeline does
\* not run, neither with that field nor with the parameter dropped.
C21_UnlistedSortFailsValidation ==
  (resp.op \in {"getAllCourses", "getAllCategories", "getAllUsers", "getAllInstructors"}) =>
    \A srt \in resp.pre.query.sort :
      srt.field \notin Sortable => (resp.code = GlobalErrorZod /\ ~resp.pre.ran)


\* ---- who may change a course -------------------------------------------------
MaxProfiles == 2

\* the user behind the instructor profile a course belongs to
OwnerUser(c) == instructors[courses[c].instructor].user

\* createInstructor (route: restrictTo('admin')): a profile for the user, whose
\* role becomes instructor
CreateInstructor(a, u) ==
  /\ a \in UserIds /\ UserRole(a) = "admin"
  /\ u \in UserIds
  /\ Len(instructors) < MaxProfiles
  /\ IF u \notin UserFind \/ ~users[u].active \/ InstructorOfUser(u) # {}
     THEN /\ resp' = Answer("createInstructor", 0, u, "BadRequest", [caller |-> a])
          /\ UNCHANGED <<instructors, users>>
     ELSE /\ instructors' = Append(instructors,
                              [user |-> u, totalCourses |-> 0, totalStudents |-> 0])
          /\ users' = [users EXCEPT ![u].role = "instructor"]
          /\ resp' = Answer("createInstructor", Len(instructors) + 1, u, "Created",
                            [caller |-> a])
  /\ UNCHANGED <<categories, courses, lessons, enrollments, procs, clock, life>>
  /\ UNCHANGED rest

\* the role and active fields of an updateUser body: each present (a
\* one-element set) or absent (the empty set)
UserBodies ==
  [role : {{}} \cup {{r} : r \in {"admin", "instructor", "student"}},
   active : {{}} \cup {{v} : v \in BOOLEAN}]

\* UserModel.findByIdAndUpdate(id, filteredBody, { new: true }): the update
\* applied to the stored document
UserFindByIdAndUpdate(us, u, b) ==
  [us EXCEPT ![u] = [role |-> IF b.role = {} THEN @.role
                              ELSE CHOOSE r \in b.role : TRUE,
                     active |-> IF b.active = {} THEN @.active
                                ELSE CHOOSE v \in b.active : TRUE]]

\* updateUser (route: restrictTo('admin')): the query runs under the find
\* filter, the test of user.active is made on the updated document
UpdateUser(a, u, b) ==
  /\ a \in UserIds /\ UserRole(a) = "admin"
  /\ u \in UserIds
  /\ b \in UserBodies
  /\ IF u \notin UserFind
     THEN /\ resp' = Answer("updateUser", u, 0, "NotFound", users[u])
          /\ UNCHANGED users
     ELSE /\ users' = UserFindByIdAndUpdate(users, u, b)
          /\ resp' = Answer("updateUser", u, 0,
                            IF ~UserFindByIdAndUpdate(users, u, b)[u].active
                            THEN "BadRequest" ELSE "OK",
                            users[u])
  /\ UNCHANGED <<categories, courses, lessons, enrollments, instructors, procs, clock, life>>
  /\ UNCHANGED rest

\* the price fields the courses below are created and updated with
PricedAt(n) == [hasPrice |-> TRUE, price |-> n, hasDiscount |-> FALSE, discountPrice |-> 0]

\* a second instructor profile, the admin role given to an instructor, and a
\* course changed, deleted and restored by any caller the routes let through
NextOwnership ==
  \/ CreateCategory
  \/ \E a \in Admins, u \in StudentIds : CreateInstructor(a, u)
  \/ \E a \in Admins, i \in DOMAIN instructors :
       UpdateUser(a, instructors[i].user, [role |-> {"admin"}, active |-> {}])
  \/ \E u \in UserFind, k \in CategoryIds :
       Len(courses) < MaxPublishing /\ CreateCoursePriced(u, k, PricedAt(MaxPrice))
  \/ \E c \in CourseIds : CreateLesson(OwnerUser(c), c, 0)
  \/ \E u \in UserFind, c \in CourseIds : UpdateCourse(u, c, PricedAt(1))
  \/ \E u \in UserFind, c \in CourseIds, st \in {"draft", "published"} :
       UpdateCourseStatus(u, c, st)
  \/ \E u \in UserFind, c \in CourseIds : DeleteCourse(u, c)
  \/ \E u \in UserFind, c \in CourseIds : RestoreCourse(u, c)

SpecOwnership == Init /\ [][NextOwnership]_vars

\* the caller of the request answered last, and whether it is an admin or the
\* user behind the profile that owns the course the request named
Caller == resp.pre.caller
CallerIsAdmin == UserRole(Caller) = "admin"
CallerOwnsCourse ==
  \E i \in InstructorOfUser(Caller) :
    ObjectId("Instructor", i) = ObjectId("Instructor", courses[resp.id].instructor)

\* C22: restoreCourse succeeds only for an admin or the instructor who owns the
\* course; from any other instructor it is rejected and the course stays
\* inactive.
C22_RestoreOnlyByOwnerOrAdmin ==
  (resp.op = "restoreCourse" /\ resp.id \in CourseIds
     /\ ~CallerIsAdmin /\ ~CallerOwnsCourse) =>
    resp.code # "OK"


\* a step that answers updateCourse, updateCourseStatus or deleteCourse for a
\* course the handler finds
CourseChangeStep ==
  /\ resp'.op \in {"updateCourse", "updateCourseStatus", "deleteCourse"}
  /\ resp'.id \in CourseFind

\* the caller of that step is an admin, with or without an instructor profile,
\* or the user behind the profile that owns the course
ChangeAllowed ==
  \/ UserRole(resp'.pre.caller) = "admin"
  \/ \E i \in InstructorOfUser(resp'.pre.caller) :
       ObjectId("Instructor", i) = ObjectId("Instructor", courses[resp'.id].instructor)

\* C23: updateCourse, updateCourseStatus and deleteCourse are not refused to an
\* admin (with or without an instructor profile) nor to the instructor who owns
\* the course, and are rejected with Forbidden for every other caller, the
\* course left unchanged.
C23_ChangeByAdminOrOwnerOnly ==
  [][CourseChangeStep =>
       IF ChangeAllowed
       THEN resp'.code \notin {"Forbidden", "NotFound"}
       ELSE /\ resp'.code = "Forbidden"
            /\ courses' = courses
            /\ pricing' = pricing]_vars


\* C24: a course is created in status draft; updateCourseStatus moves a course
\* to published only when its lessonsCount is greater than 0; a publish request
\* for a course with lessonsCount 0 leaves the course as it was and is
\* rejected, with BadRequest when it comes from the course's owner (other
\* callers are refused before the lessons are looked at).
C24_PublishNeedsLessons ==
  [][/\ Len(courses') > Len(courses) => courses'[Len(courses')].status = "draft"
     /\ \A c \in CourseIds :
          (courses'[c].status = "published" /\ courses[c].status # "published") =>
            (resp'.op = "updateCourseStatus" /\ courses[c].lessonsCount > 0)
     /\ (/\ resp'.op = "updateCourseStatus"
         /\ resp'.pre.status = "published"
         /\ resp'.id \in CourseFind
         /\ courses[resp'.id].lessonsCount = 0) =>
          /\ resp'.code # "OK"
          /\ courses' = courses
          /\ resp'.pre.caller = OwnerUser(resp'.id) => resp'.code = "BadRequest"]_vars

C24_Witness ==
  /\ resp.op = "updateCourseStatus"
  /\ resp.pre.status = "published"
  /\ resp.pre.caller = OwnerUser(resp.id)
  /\ resp.code = "BadRequest"
  /\ courses[resp.id].lessonsCount = 0
  /\ courses[resp.id].status = "draft"


\* ---- an instructor enrolling in the own course ---------------------------------
\* a course is published by its owner, the owner's profile is deleted (which
\* makes the user a student), and users enroll
NextSelfEnroll ==
  \/ Publishing
  \/ \E a \in Admins, i \in DOMAIN instructors : DeleteInstructor(a, i)
  \/ \E u \in UserFind, c \in CourseIds : EnrollCheck(1, u, c)
  \/ EnrollCreate(1)
  \/ EnrollStats(1)

SpecSelfEnroll == Init /\ [][NextSelfEnroll]_vars

\* C25: enrollInCourse rejects with BadRequest every request of the user behind
\* the instructor profile that owns the course, so no enrollment of an
\* instructor in the own course exists.
C25_NoSelfEnrollment ==
  /\ (resp.op = "enrollInCourse" /\ resp.id \in CourseIds /\ resp.arg = OwnerUser(resp.id)) =>
       resp.code = "BadRequest"
  /\ \A e \in DOMAIN enrollments :
       enrollments[e].user # OwnerUser(enrollments[e].course)


\* ---- login --------------------------------------------------------------------
\* the password a user registered with, and the passwords login requests carry
RegisteredPassword(u) == "secret"
Passwords == {"secret", "guess"}

\* user.comparePassword(candidate)
ComparePassword(u, candidate) == candidate = RegisteredPassword(u)

LoginRefusedOnPassword(us, u, password) == ~ComparePassword(u, password)
\* login: UserModel.findOne({ email }) under the find filter, comparePassword,
\* then the test of user.active
LoginRefused(us, u, password) ==
  \/ u \notin {x \in DOMAIN us : us[x].active # FALSE}
  \/ ~ComparePassword(u, password)
  \/ ~us[u].active

\* login with the email of user u; createSendToken issues the token
Login(u, password) ==
  /\ u \in UserIds
  /\ password \in Passwords
  /\ resp' = IF LoginRefused(users, u, password)
             THEN Answer("login", u, 0, "Unauthorized",
                         [password |-> password, token |-> FALSE])
             ELSE Answer("login", u, 0, "OK", [password |-> password, token |-> TRUE])
  /\ UNCHANGED <<categories, courses, lessons, enrollments, instructors, procs, clock, life>>
  /\ UNCHANGED <<users, rest>>

\* users deactivated by themselves or by an admin, updated and reactivated by
\* an admin, and logging in
NextSignIn ==
  \/ \E a \in Admins, u \in UserIds : DeleteUser(a, u)
  \/ \E u \in UserFind : DeleteMe(u)
  \/ \E a \in Admins, u \in UserIds : ReactivateUser(a, u)
  \/ \E a \in Admins, u \in UserIds, b \in UserBodies : UpdateUser(a, u, b)
  \/ \E u \in UserIds, password \in Passwords : Login(u, password)

SpecSignIn == Init /\ [][NextSignIn]_vars

\* C26: while a user is soft-deleted (active = false), every login with that
\* user's credentials is rejected as Unauthorized and issues no token.
C26_DeactivatedCannotLogin ==
  (resp.op = "login" /\ ~users[resp.id].active) =>
    (resp.code = "Unauthorized" /\ ~resp.pre.token)

C26_Witness ==
  /\ resp.op = "login"
  /\ ~users[resp.id].active
  /\ ComparePassword(resp.id, resp.pre.password)
  /\ resp.code = "Unauthorized"
  /\ ~resp.pre.token

\* C28: when updateUser answers with an error (NotFound, or BadRequest for a
\* deactivated account) the stored user is what it was before the request.
C28_UpdateUserErrorChangesNothing ==
  (resp.op = "updateUser" /\ resp.code \in {"NotFound", "BadRequest"}) =>
    users[resp.id] = resp.pre


\* ---- enrolling again after a cancellation -----------------------------------
\* the enrollment documents, active or not, of user u in course c
EnrollmentsOf(es, u, c) == {e \in DOMAIN es : es[e].user = u /\ es[e].course = c}

\* handler task p leaves Enrollment.create in this step
CreateStep(p) == procs[p].pc = "create" /\ procs'[p].pc # "create"

\* enrollInCourse is answered in this step by a handler task that has not
\* reached Enrollment.create
CheckAnswerStep == resp'.op = "enrollInCourse" /\ resp' # resp /\ procs' = procs

\* C27: once a user's enrollment in a course is cancelled, a later
\* enrollInCourse of that user for that course passes the existing-enrollment
\* check and fails on the unique (user, course) index: no second document is
\* created and the cancelled one stays inactive; a (user, course) pair never
\* has more than one enrollment document.
C27_ReenrollFailsOnUniqueIndex ==
  [][/\ \A u \in UserIds, c \in CourseIds :
          Cardinality(EnrollmentsOf(enrollments', u, c)) <= 1
     /\ \A p \in Procs :
          (/\ CreateStep(p)
           /\ \E e \in EnrollmentsOf(enrollments, procs[p].user, procs[p].course) :
                ~enrollments[e].isActive) =>
            /\ resp' = Answer("enrollInCourse", procs[p].course, procs[p].user,
                              GlobalErrorDuplicateKey, NoDoc)
            /\ enrollments' = enrollments
     /\ ~(/\ CheckAnswerStep
          /\ \E e \in EnrollmentsOf(enrollments, resp'.arg, resp'.id) :
               ~enrollments[e].isActive)]_vars

C27_Witness ==
  /\ resp.op = "enrollInCourse"
  /\ resp.code = GlobalErrorDuplicateKey
  /\ Cardinality(EnrollmentsOf(enrollments, resp.arg, resp.id)) = 1
  /\ \E e \in EnrollmentsOf(enrollments, resp.arg, resp.id) : ~enrollments[e].isActive
  /\ \A p \in Procs : procs[p].pc = "idle"


\* ---- reordering the lessons of a course ------------------------------------------
\* the lesson documents of course c, active or not
LessonsOfCourse(ls, c) == {l \in DOMAIN ls : ls[l].course = c}

\* the orderings of a set of lesson ids
NewOrders(S) ==
  {sq \in [1..Cardinality(S) -> S] : \A j, k \in DOMAIN sq : sq[j] = sq[k] => j = k}

\* updateOne({ _id: lessonId, course: courseId }, { order }): refused by the
\* unique (course, order) index when another lesson of the course has the order
UpdateOrderRefused(ls, c, l, ord) ==
  /\ l \in LessonsOfCourse(ls, c)
  /\ \E x \in LessonsOfCourse(ls, c) \ {l} : ls[x].order = ord

\* bulkWrite(bulkOps), ordered: the updates from the j-th on, one after the
\* other, up to the first one that is refused
RECURSIVE BulkWrite(_, _, _, _)
BulkWrite(ls, c, newOrder, j) ==
  IF j > Len(newOrder) THEN [ls |-> ls, threw |-> FALSE]
  ELSE IF UpdateOrderRefused(ls, c, newOrder[j], j) THEN [ls |-> ls, threw |-> TRUE]
  ELSE BulkWrite(IF newOrder[j] \in LessonsOfCourse(ls, c)
                 THEN [ls EXCEPT ![newOrder[j]].order = j] ELSE ls,
                 c, newOrder, j + 1)

\* LessonModel.reorderLessons(courseId, newOrder): bulkWrite, then the
\* course's updateStats
ReorderLessons(c, newOrder) ==
  /\ c \in CourseIds
  /\ newOrder \in NewOrders(LessonsOfCourse(lessons, c))
  /\ LET w == BulkWrite(lessons, c, newOrder, 1)
     IN /\ lessons' = w.ls
        /\ courses' = IF w.threw THEN courses
                      ELSE RelatedCourseStats(courses, w.ls, enrollments, c)
        /\ resp' = Answer("reorderLessons", c, 0,
                          IF w.threw THEN "threw" ELSE "returned",
                          [newOrder |-> newOrder])
  /\ UNCHANGED <<categories, enrollments, instructors, procs, clock, life>>
  /\ UNCHANGED <<users, rest>>

\* lessons created with and without an order, deleted, and reordered
NextReorder ==
  \/ CreateCategory
  \/ \E i \in InstructorIds, k \in CategoryIds : CreateCourse(InstructorUser(i), k)
  \/ \E c \in CourseIds, ord \in 0..MaxLessons : CreateLesson(Owner(c), c, ord)
  \/ \E l \in LessonIds : DeleteLesson(Owner(lessons[l].course), l)
  \/ \E c \in CourseIds : \E newOrder \in NewOrders(LessonsOfCourse(lessons, c)) :
       ReorderLessons(c, newOrder)

SpecReorder == Init /\ [][NextReorder]_vars

\* C29: reorderLessons with any permutation of the ids of the course's lessons
\* completes and leaves each lesson with its 1-based position in newOrder as
\* order, the (course, order) pairs of the lessons all different.
C29_ReorderAppliesPermutation ==
  /\ \A l1, l2 \in LessonIds :
       (lessons[l1].course = lessons[l2].course /\ lessons[l1].order = lessons[l2].order)
         => l1 = l2
  /\ resp.op = "reorderLessons" =>
       /\ resp.code = "returned"
       /\ \A j \in DOMAIN resp.pre.newOrder : lessons[resp.pre.newOrder[j]].order = j


\* ---- signals and shutdown ---------------------------------------------------
\* a client opens a connection to the listening server
Connect ==
  /\ server.exit = "running"
  /\ server.http = "listening"
  /\ server.conns < MaxConns
  /\ server' = [server EXCEPT !.conns = @ + 1]
  /\ UNCHANGED <<categories, courses, lessons, enrollments, instructors, procs, clock,
                 resp, life, users, inflight, pricing>>

\* a client ends its connection
Disconnect ==
  /\ server.exit = "running"
  /\ server.conns > 0
  /\ server' = [server EXCEPT !.conns = @ - 1]
  /\ UNCHANGED <<categories, courses, lessons, enrollments, instructors, procs, clock,
                 resp, life, users, inflight, pricing>>

\* a request can be handled: the process runs and a connection is open
Serving == server.exit = "running" /\ server.conns > 0

\* if (isShuttingDown) return, with the test left out
ShutdownIgnoredNever(sv) == FALSE
\* if (isShuttingDown) return
ShutdownIgnored(sv) == sv.isShuttingDown

\* shutdown(signal): once only, marks the shutdown and calls server.close,
\* after which the server accepts no connection; the callback of server.close
\* gets an error when the server was not running at the call
shutdown(sv) ==
  IF ShutdownIgnored(sv) THEN sv
  ELSE [sv EXCEPT !.isShuttingDown = TRUE, !.shutdowns = @ + 1,
                  !.err = (sv.http # "listening"),
                  !.http = IF sv.http = "listening" THEN "closing" ELSE @]

\* the process receives a signal: its process.once listener, removed by the
\* call, runs shutdown; with the listener gone the signal ends the process
Signal(sig) ==
  /\ server.exit = "running"
  /\ server' = IF sig \in server.once
               THEN shutdown([server EXCEPT !.once = @ \ {sig}])
               ELSE [server EXCEPT !.exit = sig]
  /\ UNCHANGED <<categories, courses, lessons, enrollments, instructors, procs, clock,
                 resp, life, users, inflight, pricing>>

\* the closing server has no connection left: it is closed and the callback
\* of server.close runs, to process.exit(1) with an error and to
\* mongoose.connection.close() without
ServerClosed ==
  /\ server.exit = "running"
  /\ server.http = "closing"
  /\ server.conns = 0
  /\ server' = IF server.err THEN [server EXCEPT !.http = "closed", !.exit = "1"]
               ELSE [server EXCEPT !.http = "closed", !.pc = "connection.close"]
  /\ UNCHANGED <<categories, courses, lessons, enrollments, instructors, procs, clock,
                 resp, life, users, inflight, pricing>>

\* await mongoose.connection.close()
ConnectionClose ==
  /\ server.exit = "running"
  /\ server.pc = "connection.close"
  /\ server' = [server EXCEPT !.db = "closed", !.pc = "process.exit"]
  /\ UNCHANGED <<categories, courses, lessons, enrollments, instructors, procs, clock,
                 resp, life, users, inflight, pricing>>

\* process.exit(0)
ProcessExit ==
  /\ server.exit = "running"
  /\ server.pc = "process.exit"
  /\ server' = [server EXCEPT !.exit = "0", !.pc = "none"]
  /\ UNCHANGED <<categories, courses, lessons, enrollments, instructors, procs, clock,
                 resp, life, users, inflight, pricing>>

\* requests over open connections while signals arrive
NextShutdown ==
  \/ Connect
  \/ Disconnect
  \/ Serving /\ CreateCategory
  \/ \E i \in InstructorIds, k \in CategoryIds : Serving /\ CreateCourse(InstructorUser(i), k)
  \/ \E k \in CategoryIds : Serving /\ DeleteCategory(k)
  \/ \E sig \in Signals : Signal(sig)
  \/ ServerClosed
  \/ ConnectionClose
  \/ ProcessExit

SpecShutdown == Init /\ [][NextShutdown]_vars

\* C30: whatever signals arrive, the shutdown sequence runs at most once, the
\* database connection is closed only when the server has finished closing,
\* and the process exits with code 0 only with the connection closed.
C30_ShutdownOnceInOrder ==
  /\ server.shutdowns <= 1
  /\ server.db = "closed" => server.http = "closed"
  /\ server.exit = "0" => server.db = "closed"

\* both signals were received and the process has exited with code 0
C30_Witness ==
  /\ server.once = {}
  /\ server.shutdowns = 1
  /\ server.exit = "0"

=============================================================================
